---- MODULE Spec2Model ----
(***************************************************************************)
(* Excelsior: sheet selection, date-format detection and sheet             *)
(* configuration resolution (src/src/excelsior).                           *)
(*                                                                         *)
(* Python values are modelled as follows.  A str is a TLA+ string, a list  *)
(* is a sequence, a dict is a function, an Optional is None or Some(v).    *)
(* A call either returns a value or raises: Return(v) / Raise(...).        *)
(***************************************************************************)
EXTENDS Integers, Sequences, FiniteSets, TLC

VARIABLES
    \* SheetConfigProcessor.process_sheet_selection: its arguments, where the
    \* call stands, and how it ended
    available_sheets, include_sheets, exclude_sheets, sheet_config,
    sel_pc, sel_result,
    \* DateFormatDetector.detect_date_format: its arguments, the catalog entry
    \* the column was written in (if it was generated from one), where the
    \* call stands, and how it ended
    data, date_column, gen_format, det_pc, det_result,
    \* SheetConfigProcessor.resolve_sheet_configs: its arguments, the index
    \* of the sheet the loop stands at, the map built so far, the calls
    \* made to the detector, where the call stands, and how it ended
    resolve_sheet_names, resolve_sheet_data, global_date_column,
    global_date_format, resolve_sheet_config, res_i, resolved_configs, detector_calls,
    res_pc, res_result,
    \* SplitCommand.validate_args: the parsed arguments, where the call
    \* stands, and what it returned
    args, val_pc, val_result,
    \* BaseCommand._execute_with_validation: what the command's execute does
    \* when it is called, where the call stands, the calls made so far to
    \* validate_args, execute and the logger, and how the call ended
    execute_behaviour, run_pc, run_calls, run_result,
    \* SplitSheetConfigSchema(config_data): the parsed JSON document, where
    \* the construction stands, and how it ended
    document, schema_pc, schema_result,
    \* SplitCommand.execute: the parsed arguments, what the sheet config file
    \* and the input file hold, the step at which Ctrl-C arrives (if any),
    \* where the call stands, the steps taken so far, the locals
    \* sheet_config, file_data (as loaded, and as the map of tables),
    \* selected_sheets and resolved_configs, the index of the sheet the
    \* validation loop stands at, and how the call ended
    exec_args, config_file, input_file, interrupt_at, exec_pc, exec_steps,
    exec_sheet_config, exec_loaded, exec_file_data, exec_selected,
    exec_resolved, exec_k, exec_result

sel_vars == <<available_sheets, include_sheets, exclude_sheets, sheet_config,
              sel_pc, sel_result>>

det_vars == <<data, date_column, gen_format, det_pc, det_result>>

res_vars == <<resolve_sheet_names, resolve_sheet_data, global_date_column,
              global_date_format, resolve_sheet_config, res_i, resolved_configs, detector_calls,
              res_pc, res_result>>

val_vars == <<args, val_pc, val_result>>

run_vars == <<execute_behaviour, run_pc, run_calls, run_result>>

schema_vars == <<document, schema_pc, schema_result>>

exec_inputs == <<exec_args, config_file, input_file, interrupt_at>>

exec_locals == <<exec_sheet_config, exec_loaded, exec_file_data, exec_selected,
                 exec_resolved, exec_k>>

exec_vars == <<exec_inputs, exec_pc, exec_steps, exec_locals, exec_result>>

cmd_vars == <<run_vars, schema_vars, exec_vars>>

vars == <<sel_vars, det_vars, res_vars, val_vars, cmd_vars>>

(***************************************************************************)
(* Bounds of the model.                                                    *)
(***************************************************************************)
\* longest list of available sheets
MaxAvailable == 2
\* longest include / exclude list
MaxFilter == 2
\* most rows of a table
MaxRows == 3
\* most rows of a table whose date column is generated from one format
MaxGenRows == 2
\* most sheets of a sheet configuration document
MaxEntries == 2
\* most rows of a table with many mismatching dates
MaxLongRows == 8
\* longest list of sheets to resolve
MaxSheets == 2

(***************************************************************************)
(* Python values.                                                          *)
(***************************************************************************)
None == [some |-> FALSE]
Some(v) == [some |-> TRUE, val |-> v]

\* no call of process_sheet_selection is under way
SelectIdle ==
    /\ available_sheets = <<>>
    /\ include_sheets = None
    /\ exclude_sheets = None
    /\ sheet_config = None
    /\ sel_pc = "idle"
    /\ sel_result = None

\* no call of detect_date_format is under way
DetectIdle ==
    /\ data = <<>>
    /\ date_column = ""
    /\ gen_format = None
    /\ det_pc = "idle"
    /\ det_result = None

\* no call of resolve_sheet_configs is under way
ResolveIdle ==
    /\ resolve_sheet_names = <<>>
    /\ resolve_sheet_data = None
    /\ global_date_column = None
    /\ global_date_format = None
    /\ resolve_sheet_config = None
    /\ res_i = 0
    /\ resolved_configs = <<>>
    /\ detector_calls = <<>>
    /\ res_pc = "idle"
    /\ res_result = None

\* no call of validate_args is under way
ValidateIdle ==
    /\ args = None
    /\ val_pc = "idle"
    /\ val_result = None

\* no call of _execute_with_validation is under way
RunIdle ==
    /\ execute_behaviour = None
    /\ run_pc = "idle"
    /\ run_calls = <<>>
    /\ run_result = None

\* no SplitSheetConfigSchema is under construction
SchemaIdle ==
    /\ document = None
    /\ schema_pc = "idle"
    /\ schema_result = None

\* no call of SplitCommand.execute is under way
ExecIdle ==
    /\ exec_args = None
    /\ config_file = None
    /\ input_file = None
    /\ interrupt_at = None
    /\ exec_pc = "idle"
    /\ exec_steps = <<>>
    /\ exec_sheet_config = None
    /\ exec_loaded = None
    /\ exec_file_data = None
    /\ exec_selected = <<>>
    /\ exec_resolved = None
    /\ exec_k = 0
    /\ exec_result = None

\* no command is running
CommandIdle == RunIdle /\ SchemaIdle /\ ExecIdle

\* every list over S of length at most n
ListsUpTo(S, n) == UNION {[1..k -> S] : k \in 0..n}

\* set(list)
ToSet(list) == {list[i] : i \in 1..Len(list)}

\* the characters that occur in the model's strings, in code point order
Ascii == " ,-./0123456789:ABCDEFGHIJKLMNOPQRSTUVWXYZabcdefghijklmnopqrstuvwxyz"

CharAt(s, i) == SubSeq(s, i, i)

\* ord(c), up to an order-preserving renumbering
Ord(c) == CHOOSE i \in 1..Len(Ascii) : CharAt(Ascii, i) = c

\* Python's str.__lt__: lexicographic by code point, a proper prefix first
RECURSIVE StrLess(_, _)
StrLess(a, b) ==
    IF Len(b) = 0 THEN FALSE
    ELSE IF Len(a) = 0 THEN TRUE
    ELSE IF CharAt(a, 1) # CharAt(b, 1) THEN Ord(CharAt(a, 1)) < Ord(CharAt(b, 1))
    ELSE StrLess(SubSeq(a, 2, Len(a)), SubSeq(b, 2, Len(b)))

\* sorted(list(S)) for a set S of strings
RECURSIVE Sorted(_)
Sorted(S) ==
    IF S = {} THEN <<>>
    ELSE LET m == CHOOSE x \in S : \A y \in S \ {x} : StrLess(x, y)
         IN  <<m>> \o Sorted(S \ {m})

\* how a call ends
Return(v) == [kind |-> "return", value |-> v]
Raise(exc, msg, detail) ==
    [kind |-> "raise", exc |-> exc, msg |-> msg, detail |-> detail]

(***************************************************************************)
(* SplitSheetConfigSchema and SheetConfig (schemas/split.py).              *)
(***************************************************************************)
\* the sheet names of the model: "A" is a proper prefix of "AB", and the
\* upper-case names sort before the lower-case one
SheetNames == {"A", "AB", "a"}

\* a SheetConfig that sets only the include flag
IncludeOnly(b) == [date_column |-> None, date_format |-> None, include |-> b]

\* validate_sheet_configs: the mapping is non-empty and at least one sheet
\* is included (the sheet names of the model are all non-blank)
validate_sheet_configs(v) ==
    /\ DOMAIN v # {}
    /\ {sheet_name \in DOMAIN v : v[sheet_name].include} # {}

\* the validated schemas over entries E
Schemas(E) ==
    {v \in UNION {[D -> E] : D \in SUBSET SheetNames} : validate_sheet_configs(v)}

(***************************************************************************)
(* SheetConfigProcessor.process_sheet_selection (utils/data_processor.py). *)
(***************************************************************************)
\* bool(x) of an Optional[list]: None and the empty list are both falsy
Truthy(opt) == opt.some /\ Len(opt.val) > 0

\* a validation that reports every name of the list, not only the unknown ones
_validate_sheet_names_AllNames(sheet_names, available, filter_type) ==
    IF \E i \in 1..Len(sheet_names) : sheet_names[i] \notin ToSet(available)
    THEN Raise("SheetConfigError", "Invalid sheet names",
               [filter_type |-> filter_type,
                invalid_sheets |-> sheet_names,
                available |-> available])
    ELSE Return(None)

\* _validate_sheet_names: raises when a name is not an available sheet
_validate_sheet_names(sheet_names, available, filter_type) ==
    LET invalid_sheets ==
            SelectSeq(sheet_names, LAMBDA name : name \notin ToSet(available))
    IN  IF invalid_sheets # <<>>
        THEN Raise("SheetConfigError", "Invalid sheet names",
                   [filter_type |-> filter_type,
                    invalid_sheets |-> invalid_sheets,
                    available |-> available])
        ELSE Return(None)

\* a config filter that drops the sheets the configuration does not name
_apply_config_filters_NoDefault(selected_sheets, config) ==
    {sheet_name \in selected_sheets :
        sheet_name \in DOMAIN config /\ config[sheet_name].include}

\* _apply_config_filters: the selected sheets the configuration keeps
_apply_config_filters(selected_sheets, config) ==
    {sheet_name \in selected_sheets :
        IF sheet_name \in DOMAIN config
        THEN config[sheet_name].include
        ELSE TRUE}

\* an include filter that keeps every sheet
ApplyInclude_Ignored(selected_sheets, include, available) == selected_sheets

\* lines 256-262: the include filter
ApplyInclude(selected_sheets, include, available) ==
    selected_sheets \cap ToSet(include)

\* an exclude filter that removes nothing
ApplyExclude_Ignored(selected_sheets, exclude, available) == selected_sheets

\* lines 264-270: the exclude filter
ApplyExclude(selected_sheets, exclude, available) ==
    selected_sheets \ ToSet(exclude)

\* lines 272-278: the sheet-config filter
ApplyConfig(selected_sheets, config) ==
    selected_sheets \cap _apply_config_filters(selected_sheets, config)

\* sorted(..., reverse=True)
FinalSheets_Reversed(selected_sheets) ==
    LET l == Sorted(selected_sheets)
    IN  [i \in 1..Len(l) |-> l[Len(l) + 1 - i]]

\* line 280: final_sheets = sorted(list(selected_sheets))
FinalSheets(selected_sheets) == Sorted(selected_sheets)

\* a return without the emptiness check
ReturnFinal_Unchecked(final_sheets) == Return(final_sheets)

\* lines 282-291: an empty selection raises, any other is returned
ReturnFinal(final_sheets) ==
    IF final_sheets = <<>>
    THEN Raise("SheetConfigError", "No sheets selected for processing", None)
    ELSE Return(final_sheets)

\* the whole call: what it returns or raises
SelectionOutcome(available, include, exclude, config) ==
    LET all == ToSet(available)
        inc_check == IF Truthy(include)
                     THEN _validate_sheet_names(include.val, available, "include")
                     ELSE Return(None)
        after_inc == IF Truthy(include)
                     THEN ApplyInclude(all, include.val, available)
                     ELSE all
        exc_check == IF Truthy(exclude)
                     THEN _validate_sheet_names(exclude.val, available, "exclude")
                     ELSE Return(None)
        after_exc == IF Truthy(exclude)
                     THEN ApplyExclude(after_inc, exclude.val, available)
                     ELSE after_inc
        \* a SplitSheetConfigSchema object is always truthy
        after_cfg == IF config.some
                     THEN ApplyConfig(after_exc, config.val)
                     ELSE after_exc
    IN  IF inc_check.kind = "raise" THEN inc_check
        ELSE IF exc_check.kind = "raise" THEN exc_check
        ELSE ReturnFinal(FinalSheets(after_cfg))

OptionalLists == {None} \cup {Some(l) : l \in ListsUpTo(SheetNames, MaxFilter)}

OptionalSchemas ==
    {None} \cup {Some(v) : v \in Schemas({IncludeOnly(TRUE), IncludeOnly(FALSE)})}

\* the arguments of one call of process_sheet_selection
InitSelect ==
    /\ available_sheets \in ListsUpTo(SheetNames, MaxAvailable)
    /\ include_sheets \in OptionalLists
    /\ exclude_sheets \in OptionalLists
    /\ sheet_config \in OptionalSchemas
    /\ sel_pc = "call"
    /\ sel_result = None
    /\ DetectIdle /\ ResolveIdle /\ ValidateIdle /\ CommandIdle

process_sheet_selection ==
    /\ sel_pc = "call"
    /\ sel_result' = SelectionOutcome(available_sheets, include_sheets,
                                      exclude_sheets, sheet_config)
    /\ sel_pc' = "done"
    /\ UNCHANGED <<available_sheets, include_sheets, exclude_sheets, sheet_config>>
    /\ UNCHANGED <<det_vars, res_vars, val_vars, cmd_vars>>

NextSelect == process_sheet_selection

SpecSelect == InitSelect /\ [][NextSelect]_vars

(***************************************************************************)
(* Properties of process_sheet_selection.                                  *)
(***************************************************************************)
SelDone == sel_pc = "done"

Avail == ToSet(available_sheets)
Inc == IF include_sheets.some THEN ToSet(include_sheets.val) ELSE {}
Exc == IF exclude_sheets.some THEN ToSet(exclude_sheets.val) ELSE {}

\* r is the strictly increasing list of the elements of S
IsSortedListOf(r, S) ==
    /\ ToSet(r) = S
    /\ \A i, j \in 1..Len(r) : i < j => StrLess(r[i], r[j])

IsNoSheetsError(r) ==
    /\ r.kind = "raise"
    /\ r.exc = "SheetConfigError"
    /\ r.msg = "No sheets selected for processing"

IsInvalidNamesError(r) ==
    /\ r.kind = "raise"
    /\ r.exc = "SheetConfigError"
    /\ r.msg = "Invalid sheet names"

\* the call returns sorted(S), or raises the empty-selection error if S is empty
SelectsExactly(S) ==
    IF S = {}
    THEN IsNoSheetsError(sel_result)
    ELSE sel_result.kind = "return" /\ IsSortedListOf(sel_result.value, S)

\* C1: whenever process_sheet_selection returns, the returned list is
\* sorted lexicographically, has no duplicates, and each of its elements is
\* an available sheet, whatever the include list, exclude list and config.
C1_SelectorDeterminism ==
    (SelDone /\ sel_result.kind = "return") =>
        LET r == sel_result.value
        IN  /\ \A i, j \in 1..Len(r) : i < j => StrLess(r[i], r[j])
            /\ \A i, j \in 1..Len(r) : i # j => r[i] # r[j]
            /\ ToSet(r) \subseteq Avail

\* two sheets returned in sorted order from an unsorted available list, with
\* an include list and a config given
C1_Witness ==
    /\ SelDone
    /\ sel_result.kind = "return"
    /\ Len(sel_result.value) = 2
    /\ StrLess(available_sheets[2], available_sheets[1])
    /\ Truthy(include_sheets) /\ sheet_config.some

\* C2 as stated: with an include list I (the empty list included) and no
\* exclude list or config, the call returns sorted(A \cap I) if I is a
\* subset of A, failing with the empty-selection error when the intersection
\* is empty, and fails if some name of I is not in A.
C2_AsStated ==
    (SelDone /\ include_sheets.some /\ ~exclude_sheets.some /\ ~sheet_config.some) =>
        IF Inc \subseteq Avail
        THEN SelectsExactly(Avail \cap Inc)
        ELSE sel_result.kind = "raise"

\* C2 amended: the same for a non-empty include list; an empty include
\* list is treated as no include list, so the call returns sorted(A) (and
\* fails with the empty-selection error only if A is empty).
C2_IncludeComposition ==
    (SelDone /\ include_sheets.some /\ ~exclude_sheets.some /\ ~sheet_config.some) =>
        IF include_sheets.val = <<>>
        THEN SelectsExactly(Avail)
        ELSE IF Inc \subseteq Avail
             THEN SelectsExactly(Avail \cap Inc)
             ELSE IsInvalidNamesError(sel_result)

\* a non-empty include list that names fewer sheets than are available
C2_Witness ==
    /\ SelDone /\ ~exclude_sheets.some /\ ~sheet_config.some
    /\ Truthy(include_sheets)
    /\ Inc \subseteq Avail /\ Inc # Avail
    /\ sel_result.kind = "return"
    /\ ToSet(sel_result.value) = Inc

\* C3: with a valid exclude list E and no config, the call returns
\* sorted(A \ E) when there is no include list and sorted((A \cap I) \ E)
\* when a valid (non-empty) include list I is given too: a sheet named in
\* both lists is dropped.  An empty remainder is the empty-selection error.
C3_ExcludeAfterInclude ==
    (/\ SelDone /\ ~sheet_config.some
     /\ exclude_sheets.some /\ Exc \subseteq Avail
     /\ (include_sheets.some => Truthy(include_sheets) /\ Inc \subseteq Avail)) =>
        SelectsExactly((IF include_sheets.some THEN Avail \cap Inc ELSE Avail) \ Exc)

\* a sheet named in both lists is dropped while another included one stays
C3_Witness ==
    /\ SelDone /\ ~sheet_config.some
    /\ Truthy(include_sheets) /\ Truthy(exclude_sheets)
    /\ Inc \subseteq Avail /\ Exc \subseteq Avail
    /\ Inc \cap Exc # {}
    /\ sel_result.kind = "return"
    /\ ToSet(sel_result.value) = Inc \ Exc

\* the sheets that survive the include and exclude filters
Survivors ==
    (IF Truthy(include_sheets) THEN Avail \cap Inc ELSE Avail)
        \ (IF Truthy(exclude_sheets) THEN Exc ELSE {})

FiltersValid ==
    /\ Truthy(include_sheets) => Inc \subseteq Avail
    /\ Truthy(exclude_sheets) => Exc \subseteq Avail

\* C4: with a sheet config, a sheet that survived the include/exclude
\* filters is kept iff it has no config entry or its entry has include =
\* true; entries for sheets that are not available raise nothing and add
\* nothing.
C4_ConfigFilter ==
    (SelDone /\ sheet_config.some /\ FiltersValid) =>
        SelectsExactly({s \in Survivors :
                           \/ s \notin DOMAIN sheet_config.val
                           \/ sheet_config.val[s].include})

\* the config drops one available sheet, keeps an unnamed one, and names a
\* sheet (with include = true) that is not available
C4_Witness ==
    /\ SelDone /\ sheet_config.some
    /\ sel_result.kind = "return"
    /\ \E s \in Avail : s \in DOMAIN sheet_config.val /\ ~sheet_config.val[s].include
    /\ \E s \in ToSet(sel_result.value) : s \notin DOMAIN sheet_config.val
    /\ \E s \in DOMAIN sheet_config.val : s \notin Avail /\ sheet_config.val[s].include

\* C5: process_sheet_selection never returns an empty list; when the
\* (valid) filters or an empty available list leave no sheet, it raises
\* SheetConfigError 'No sheets selected for processing'.
C5_NeverEmpty ==
    SelDone =>
        /\ sel_result.kind = "return" => sel_result.value # <<>>
        /\ (/\ FiltersValid
            /\ {s \in Survivors : sheet_config.some =>
                    \/ s \notin DOMAIN sheet_config.val
                    \/ sheet_config.val[s].include} = {})
                => IsNoSheetsError(sel_result)

\* the filters empty a non-empty available list
C5_Witness ==
    /\ SelDone
    /\ available_sheets # <<>>
    /\ IsNoSheetsError(sel_result)

\* C6: an include or exclude list with a name that is not available makes
\* the call fail whatever the other filters are; the include list is
\* validated first; the error names exactly the unavailable names of that
\* list and lists all available sheets.
C6_InvalidNames ==
    SelDone =>
        /\ (Truthy(include_sheets) /\ ~(Inc \subseteq Avail)) =>
            /\ IsInvalidNamesError(sel_result)
            /\ sel_result.detail.filter_type = "include"
            /\ ToSet(sel_result.detail.invalid_sheets) = Inc \ Avail
            /\ sel_result.detail.available = available_sheets
        /\ (/\ Truthy(include_sheets) => Inc \subseteq Avail
            /\ Truthy(exclude_sheets) /\ ~(Exc \subseteq Avail)) =>
            /\ IsInvalidNamesError(sel_result)
            /\ sel_result.detail.filter_type = "exclude"
            /\ ToSet(sel_result.detail.invalid_sheets) = Exc \ Avail
            /\ sel_result.detail.available = available_sheets

\* both lists name an unknown sheet, the include list also a known one that
\* the config would keep: the error is the include list's
C6_Witness ==
    /\ SelDone
    /\ Truthy(include_sheets) /\ Truthy(exclude_sheets) /\ sheet_config.some
    /\ Inc \cap Avail # {} /\ Inc \ Avail # {}
    /\ Exc \ Avail # {}
    /\ IsInvalidNamesError(sel_result)
    /\ sel_result.detail.filter_type = "include"

(***************************************************************************)
(* DateFormatDetector (utils/date_format_detector.py): strings, regular    *)
(* expressions and strict parsing.                                         *)
(***************************************************************************)
Digits == "0123456789"
UpperCase == "ABCDEFGHIJKLMNOPQRSTUVWXYZ"
LowerCase == "abcdefghijklmnopqrstuvwxyz"

Chars(s) == {CharAt(s, i) : i \in 1..Len(s)}

DigitChars == Chars(Digits)
AlphaChars == Chars(UpperCase) \cup Chars(LowerCase)

\* regex \d and [A-Za-z]
IsDigit(c) == c \in DigitChars
IsAlpha(c) == c \in AlphaChars

\* int(c) of a digit character, and str(d) of a digit
DigitVal(c) == CHOOSE d \in 0..9 : CharAt(Digits, d + 1) = c
Digit(d) == CharAt(Digits, d + 1)

\* int(s) of a string of digits
RECURSIVE ToInt(_)
ToInt(s) ==
    IF Len(s) = 0 THEN 0
    ELSE 10 * ToInt(SubSeq(s, 1, Len(s) - 1)) + DigitVal(CharAt(s, Len(s)))

\* str(n) of a natural number
RECURSIVE IntToStr(_)
IntToStr(n) == IF n < 10 THEN Digit(n) ELSE IntToStr(n \div 10) \o Digit(n % 10)

\* str.lower()
LowerChar(c) ==
    IF c \in Chars(UpperCase)
    THEN CharAt(LowerCase, CHOOSE i \in 1..Len(UpperCase) : CharAt(UpperCase, i) = c)
    ELSE c

RECURSIVE Lower(_)
Lower(s) ==
    IF Len(s) = 0 THEN s
    ELSE LowerChar(CharAt(s, 1)) \o Lower(SubSeq(s, 2, Len(s)))

\* str.strip(): the blank is the only whitespace of the model's strings
RECURSIVE Strip(_)
Strip(s) ==
    IF Len(s) = 0 THEN s
    ELSE IF CharAt(s, 1) = " " THEN Strip(SubSeq(s, 2, Len(s)))
    ELSE IF CharAt(s, Len(s)) = " " THEN Strip(SubSeq(s, 1, Len(s) - 1))
    ELSE s

\* A regular expression ^t1 t2 ... tn$ is the sequence of its tokens: a
\* token matches between min and max characters of one class.
ReDigits(lo, hi) == [cls |-> "digit", min |-> lo, max |-> hi]   \* \d{lo,hi}
ReAlphas == [cls |-> "alpha", min |-> 1, max |-> -1]              \* [A-Za-z]+
ReLit(c) == [cls |-> c, min |-> 1, max |-> 1]                     \* a literal

InClass(cls, c) ==
    IF cls = "digit" THEN IsDigit(c)
    ELSE IF cls = "alpha" THEN IsAlpha(c)
    ELSE c = cls

\* whether tokens k.. of pat match s from position i to its end
RECURSIVE ReMatchFrom(_, _, _, _)
ReMatchFrom(pat, k, s, i) ==
    IF k > Len(pat) THEN i = Len(s) + 1
    ELSE LET t == pat[k]
             rest == Len(s) - i + 1
             most == IF t.max = -1 \/ t.max > rest THEN rest ELSE t.max
         IN  \E n \in t.min..most :
                /\ \A j \in i..(i + n - 1) : InClass(t.cls, CharAt(s, j))
                /\ ReMatchFrom(pat, k + 1, s, i + n)

\* re.match(pattern, value) for an anchored pattern
ReMatch(pat, s) == ReMatchFrom(pat, 1, s, 1)

\* the month names of strftime / strptime (%B and %b)
MonthNames ==
    <<"January", "February", "March", "April", "May", "June", "July",
      "August", "September", "October", "November", "December">>
MonthAbbrs ==
    <<"Jan", "Feb", "Mar", "Apr", "May", "Jun", "Jul", "Aug", "Sep", "Oct",
      "Nov", "Dec">>

\* a format string as the list of its directives ("%Y") and literal characters
RECURSIVE FormatTokens(_)
FormatTokens(fmt) ==
    IF Len(fmt) = 0 THEN <<>>
    ELSE IF CharAt(fmt, 1) = "%"
         THEN <<SubSeq(fmt, 1, 2)>> \o FormatTokens(SubSeq(fmt, 3, Len(fmt)))
         ELSE <<CharAt(fmt, 1)>> \o FormatTokens(SubSeq(fmt, 2, Len(fmt)))

IsLeap(y) == (y % 4 = 0 /\ y % 100 # 0) \/ y % 400 = 0

DaysInMonth(y, m) ==
    IF m = 2 THEN (IF IsLeap(y) THEN 29 ELSE 28)
    ELSE IF m \in {4, 6, 9, 11} THEN 30 ELSE 31

\* the fields strptime starts from
NoFields == [Y |-> 1900, m |-> 1, d |-> 1, H |-> 0, M |-> 0, S |-> 0]

\* the date exists
ValidFields(f) ==
    /\ f.m \in 1..12
    /\ f.d \in 1..DaysInMonth(f.Y, f.m)
    /\ f.H \in 0..23 /\ f.M \in 0..59 /\ f.S \in 0..59

\* a run of n digits of s at i, as <<n, value>>, if its value is in lo..hi
DigitRuns(s, i, lens, lo, hi) ==
    {<<n, ToInt(SubSeq(s, i, i + n - 1))>> : n \in
        {n \in lens : /\ i + n - 1 <= Len(s)
                      /\ \A j \in i..(i + n - 1) : IsDigit(CharAt(s, j))
                      /\ ToInt(SubSeq(s, i, i + n - 1)) \in lo..hi}}

\* a month name of names at i (case-insensitive), as <<length, month>>
NameRuns(s, i, names) ==
    {<<Len(names[m]), m>> : m \in
        {m \in 1..12 : /\ i + Len(names[m]) - 1 <= Len(s)
                       /\ Lower(SubSeq(s, i, i + Len(names[m]) - 1)) = Lower(names[m])}}

\* what the directive tok can match of s at i: the set of <<length, value>>
\* (the regular expressions of strptime's directives)
DirectiveRuns(tok, s, i) ==
    IF tok = "%Y" THEN DigitRuns(s, i, {4}, 0, 9999)
    ELSE IF tok = "%y" THEN DigitRuns(s, i, {2}, 0, 99)
    ELSE IF tok = "%m" THEN
        DigitRuns(s, i, {2}, 1, 12) \cup DigitRuns(s, i, {1}, 1, 9)
    ELSE IF tok = "%d" THEN
        DigitRuns(s, i, {2}, 1, 31) \cup DigitRuns(s, i, {1}, 1, 9)
            \cup (IF i <= Len(s) /\ CharAt(s, i) = " "
                  THEN {<<r[1] + 1, r[2]>> : r \in DigitRuns(s, i + 1, {1}, 1, 9)}
                  ELSE {})
    ELSE IF tok = "%H" THEN
        DigitRuns(s, i, {2}, 0, 23) \cup DigitRuns(s, i, {1}, 0, 9)
    ELSE IF tok = "%M" THEN
        DigitRuns(s, i, {2}, 0, 59) \cup DigitRuns(s, i, {1}, 0, 9)
    ELSE IF tok = "%S" THEN
        DigitRuns(s, i, {2}, 0, 61) \cup DigitRuns(s, i, {1}, 0, 9)
    ELSE IF tok = "%B" THEN NameRuns(s, i, MonthNames)
    ELSE IF tok = "%b" THEN NameRuns(s, i, MonthAbbrs)
    ELSE IF tok = " " THEN
        \* whitespace in a format matches one or more whitespace characters
        {<<n, 0>> : n \in {n \in 1..(Len(s) - i + 1) :
                              \A j \in i..(i + n - 1) : CharAt(s, j) = " "}}
    ELSE IF i <= Len(s) /\ CharAt(s, i) = tok THEN {<<1, 0>>} ELSE {}

\* the field a directive sets
SetField(f, tok, v) ==
    IF tok = "%Y" THEN [f EXCEPT !.Y = v]
    ELSE IF tok = "%y" THEN [f EXCEPT !.Y = IF v <= 68 THEN 2000 + v ELSE 1900 + v]
    ELSE IF tok \in {"%m", "%B", "%b"} THEN [f EXCEPT !.m = v]
    ELSE IF tok = "%d" THEN [f EXCEPT !.d = v]
    ELSE IF tok = "%H" THEN [f EXCEPT !.H = v]
    ELSE IF tok = "%M" THEN [f EXCEPT !.M = v]
    ELSE IF tok = "%S" THEN [f EXCEPT !.S = v]
    ELSE f

\* the fields of every way tokens k.. of toks match s from i to its end
RECURSIVE ParseFrom(_, _, _, _, _)
ParseFrom(toks, k, s, i, f) ==
    IF k > Len(toks) THEN (IF i = Len(s) + 1 THEN {f} ELSE {})
    ELSE UNION {ParseFrom(toks, k + 1, s, i + r[1], SetField(f, toks[k], r[2])) :
                    r \in DirectiveRuns(toks[k], s, i)}

\* pd.to_datetime(value, format=fmt, errors="raise") does not raise: the
\* whole value matches the format and the date exists.  The directives are
\* those of strptime; on the values the catalog's regular expressions let
\* through, pandas' ISO 8601 parser (used for the %Y-first formats) accepts
\* the same strings.  The years of the model lie within pandas' Timestamp
\* range, so no value is out of bounds.
Strptime(fmt, value) ==
    \E f \in ParseFrom(FormatTokens(fmt), 1, value, 1, NoFields) : ValidFields(f)

\* n as two (four) digits
Pad2(n) == Digit(n \div 10) \o Digit(n % 10)
Pad4(n) == Pad2(n \div 100) \o Pad2(n % 100)

\* one directive of strftime
FormatDirective(tok, f) ==
    IF tok = "%Y" THEN Pad4(f.Y)
    ELSE IF tok = "%y" THEN Pad2(f.Y % 100)
    ELSE IF tok = "%m" THEN Pad2(f.m)
    ELSE IF tok = "%d" THEN Pad2(f.d)
    ELSE IF tok = "%H" THEN Pad2(f.H)
    ELSE IF tok = "%M" THEN Pad2(f.M)
    ELSE IF tok = "%S" THEN Pad2(f.S)
    ELSE IF tok = "%B" THEN MonthNames[f.m]
    ELSE IF tok = "%b" THEN MonthAbbrs[f.m]
    ELSE tok

RECURSIVE Concat(_)
Concat(strs) == IF Len(strs) = 0 THEN "" ELSE Head(strs) \o Concat(Tail(strs))

\* datetime.strftime(fmt): a value written exactly in the format
Strftime(fmt, f) ==
    LET toks == FormatTokens(fmt)
    IN  Concat([k \in 1..Len(toks) |-> FormatDirective(toks[k], f)])

(***************************************************************************)
(* DateFormatDetector: the catalog and detect_date_format.                 *)
(***************************************************************************)
Entry(fmt, pat) == [format |-> fmt, pattern |-> pat]

\* \d{1,2} sep \d{1,2} sep \d{n}   and   \d{4} sep \d{1,2} sep \d{1,2}
DayFirstRe(sep, n) ==
    <<ReDigits(1, 2), ReLit(sep), ReDigits(1, 2), ReLit(sep), ReDigits(n, n)>>
YearFirstRe(sep) ==
    <<ReDigits(4, 4), ReLit(sep), ReDigits(1, 2), ReLit(sep), ReDigits(1, 2)>>

\* lines 25-28: ISO formats
IsoPatterns ==
    <<Entry("%Y-%m-%d", YearFirstRe("-")),
      Entry("%Y-%m-%d %H:%M:%S",
            YearFirstRe("-") \o <<ReLit(" "), ReDigits(1, 2), ReLit(":"),
                                  ReDigits(2, 2), ReLit(":"), ReDigits(2, 2)>>),
      Entry("%Y-%m-%d %H:%M",
            YearFirstRe("-") \o <<ReLit(" "), ReDigits(1, 2), ReLit(":"),
                                  ReDigits(2, 2)>>)>>

\* worldwide formats whose last two-digit-year entry repeats the four-digit
\* regular expression of the entry above it
WorldwidePatterns_CopyPaste ==
    <<Entry("%d/%m/%Y", DayFirstRe("/", 4)),
      Entry("%d/%m/%y", DayFirstRe("/", 2)),
      Entry("%d-%m-%Y", DayFirstRe("-", 4)),
      Entry("%d-%m-%y", DayFirstRe("-", 2)),
      Entry("%d.%m.%Y", DayFirstRe(".", 4)),
      Entry("%d.%m.%y", DayFirstRe(".", 4))>>

\* lines 29-35: common worldwide formats (day first)
WorldwidePatterns ==
    <<Entry("%d/%m/%Y", DayFirstRe("/", 4)),
      Entry("%d/%m/%y", DayFirstRe("/", 2)),
      Entry("%d-%m-%Y", DayFirstRe("-", 4)),
      Entry("%d-%m-%y", DayFirstRe("-", 2)),
      Entry("%d.%m.%Y", DayFirstRe(".", 4)),
      Entry("%d.%m.%y", DayFirstRe(".", 2))>>

\* lines 36-40: common US formats (month first)
USPatterns ==
    <<Entry("%m/%d/%Y", DayFirstRe("/", 4)),
      Entry("%m/%d/%y", DayFirstRe("/", 2)),
      Entry("%m-%d-%Y", DayFirstRe("-", 4)),
      Entry("%m-%d-%y", DayFirstRe("-", 2))>>

\* lines 41-47: other common formats
OtherPatterns ==
    <<Entry("%Y/%m/%d", YearFirstRe("/")),
      Entry("%Y.%m.%d", YearFirstRe(".")),
      Entry("%B %d, %Y",
            <<ReAlphas, ReLit(" "), ReDigits(1, 2), ReLit(","), ReLit(" "),
              ReDigits(4, 4)>>),
      Entry("%b %d, %Y",
            <<ReAlphas, ReLit(" "), ReDigits(1, 2), ReLit(","), ReLit(" "),
              ReDigits(4, 4)>>),
      Entry("%d %B %Y",
            <<ReDigits(1, 2), ReLit(" "), ReAlphas, ReLit(" "), ReDigits(4, 4)>>),
      Entry("%d %b %Y",
            <<ReDigits(1, 2), ReLit(" "), ReAlphas, ReLit(" "), ReDigits(4, 4)>>)>>

\* a catalog that lists the US formats before the worldwide ones
format_patterns_USFirst ==
    IsoPatterns \o USPatterns \o WorldwidePatterns \o OtherPatterns

\* self.format_patterns, in priority order
format_patterns ==
    IsoPatterns \o WorldwidePatterns \o USPatterns \o OtherPatterns

\* line 171: mismatches collected before the validation loop stops
MismatchCollectLimit == 5
\* line 204: mismatches shown in the error
MismatchShowLimit == 5
\* line 219: more mismatches than this add ' (showing first 5)'
TruncationThreshold == 5

\* the cells of a table
NullCell == [t |-> "null"]
StrCell(s) == [t |-> "str", v |-> s]
IntCell(n) == [t |-> "int", v |-> n]

\* astype(str) of one cell
AsStr(cell) == IF cell.t = "int" THEN IntToStr(cell.v) ELSE cell.v

\* a DataFrame with the columns Date (the given cells) and Amount (integers)
DataFrame(cells) ==
    [columns |-> <<"Date", "Amount">>,
     series |-> [c \in {"Date", "Amount"} |->
                    IF c = "Date" THEN cells
                    ELSE [i \in 1..Len(cells) |-> IntCell(100 * i)]]]

\* a column turned to text before its nulls are dropped: a null is "nan"
RECURSIVE DropNaFrom_NullAsText(_, _)
DropNaFrom_NullAsText(cells, i) ==
    IF i > Len(cells) THEN <<>>
    ELSE <<[index |-> i - 1,
            value |-> IF cells[i].t = "null" THEN [t |-> "str", v |-> "nan"]
                      ELSE cells[i]]>>
         \o DropNaFrom_NullAsText(cells, i + 1)

\* data[date_column].dropna(): the non-null cells with their row labels
\* (the labels of a RangeIndex, from 0)
RECURSIVE DropNaFrom(_, _)
DropNaFrom(cells, i) ==
    IF i > Len(cells) THEN <<>>
    ELSE (IF cells[i].t = "null" THEN <<>>
          ELSE <<[index |-> i - 1, value |-> cells[i]]>>)
         \o DropNaFrom(cells, i + 1)

DropNa(cells) == DropNaFrom(cells, 1)

\* a detection that trusts the regular expression and never parses
RECURSIVE DetectFrom_RegexOnly(_, _)
DetectFrom_RegexOnly(k, value) ==
    IF k > Len(format_patterns) THEN None
    ELSE IF ReMatch(format_patterns[k].pattern, value)
         THEN Some(format_patterns[k].format)
         ELSE DetectFrom_RegexOnly(k + 1, value)

\* lines 114-123: the loop over the catalog from entry k on
RECURSIVE DetectFrom(_, _)
DetectFrom(k, value) ==
    IF k > Len(format_patterns) THEN None
    ELSE IF ReMatch(format_patterns[k].pattern, value)
         THEN IF Strptime(format_patterns[k].format, value)
              THEN Some(format_patterns[k].format)
              ELSE DetectFrom(k + 1, value)
         ELSE DetectFrom(k + 1, value)

\* a detection that falls back to the ISO format when no entry accepts
_detect_format_from_value_Fallback(value) ==
    IF DetectFrom(1, value).some THEN DetectFrom(1, value) ELSE Some("%Y-%m-%d")

\* _detect_format_from_value
_detect_format_from_value(value) == DetectFrom(1, value)

\* lines 143-148: the regular expression of the detected format
PatternOf(detected_format) ==
    LET ks == {k \in 1..Len(format_patterns) :
                  format_patterns[k].format = detected_format}
    IN  IF ks = {} THEN None
        ELSE Some(format_patterns[CHOOSE k \in ks : \A j \in ks : k <= j].pattern)

\* a value test that never parses
Mismatches_RegexOnly(pattern, detected_format, value) == ~ReMatch(pattern, value)

\* lines 160-168: the value fails the regular expression or the parse
Mismatches(pattern, detected_format, value) ==
    IF ~ReMatch(pattern, value) THEN TRUE
    ELSE ~Strptime(detected_format, value)

\* lines 155-172: the validation loop from value i on (i counts from 1; the
\* pairs hold enumerate's index, from 0)
RECURSIVE CollectMismatches(_, _, _, _, _)
CollectMismatches(string_values, i, pattern, detected_format, mismatched_values) ==
    IF i > Len(string_values) THEN mismatched_values
    ELSE LET value == Strip(string_values[i])
             found == IF Mismatches(pattern, detected_format, value)
                      THEN Append(mismatched_values, <<i - 1, value>>)
                      ELSE mismatched_values
         IN  IF Len(found) >= MismatchCollectLimit THEN found
             ELSE CollectMismatches(string_values, i + 1, pattern,
                                    detected_format, found)

\* an error that reports the position among the non-null values as the row
_raise_consistency_error_Position(mismatched_values, string_values, date_values, detected_format, date_column_, pattern) ==
    LET shown == SubSeq(mismatched_values, 1,
                        IF Len(mismatched_values) < MismatchShowLimit
                        THEN Len(mismatched_values) ELSE MismatchShowLimit)
        mismatch_details ==
            [k \in 1..Len(shown) |->
                [row |-> shown[k][1], value |-> shown[k][2]]]
        total_mismatches ==
            Cardinality({i \in 1..Len(string_values) :
                            ~ReMatch(pattern, Strip(string_values[i]))})
    IN  Raise("DateFormatDetectionError", "Inconsistent date formats detected",
              [date_column |-> date_column_,
               detected_format |-> detected_format,
               total_mismatches |-> total_mismatches,
               mismatch_details |-> mismatch_details,
               showing_first_5 |-> total_mismatches > TruncationThreshold])

\* _raise_consistency_error
_raise_consistency_error(mismatched_values, string_values, date_values, detected_format, date_column_, pattern) ==
    LET shown == SubSeq(mismatched_values, 1,
                        IF Len(mismatched_values) < MismatchShowLimit
                        THEN Len(mismatched_values) ELSE MismatchShowLimit)
        mismatch_details ==
            [k \in 1..Len(shown) |->
                [row |-> date_values[shown[k][1] + 1].index, value |-> shown[k][2]]]
        total_mismatches ==
            Cardinality({i \in 1..Len(string_values) :
                            ~ReMatch(pattern, Strip(string_values[i]))})
    IN  Raise("DateFormatDetectionError", "Inconsistent date formats detected",
              [date_column |-> date_column_,
               detected_format |-> detected_format,
               total_mismatches |-> total_mismatches,
               mismatch_details |-> mismatch_details,
               showing_first_5 |-> total_mismatches > TruncationThreshold])

\* _validate_format_consistency
_validate_format_consistency(string_values, date_values, detected_format, date_column_) ==
    LET pattern == PatternOf(detected_format)
    IN  IF ~pattern.some THEN Return(None)
        ELSE LET mismatched_values ==
                     CollectMismatches(string_values, 1, pattern.val,
                                       detected_format, <<>>)
             IN  IF mismatched_values # <<>>
                 THEN _raise_consistency_error(mismatched_values, string_values,
                                               date_values, detected_format,
                                               date_column_, pattern.val)
                 ELSE Return(None)

\* detect_date_format: what the call returns or raises
DetectOutcome(data_, date_column_) ==
    IF date_column_ \notin ToSet(data_.columns)
    THEN Raise("DateFormatDetectionError", "Date column not found",
               [date_column |-> date_column_, available_columns |-> data_.columns])
    ELSE LET date_values == DropNa(data_.series[date_column_])
             string_values ==
                 [i \in 1..Len(date_values) |-> AsStr(date_values[i].value)]
         IN  IF Len(date_values) = 0
             THEN Raise("DateFormatDetectionError",
                        "Date column contains no valid data for format detection",
                        [date_column |-> date_column_])
             ELSE LET first_value == Strip(string_values[1])
                      detected_format == _detect_format_from_value(first_value)
                  IN  IF ~detected_format.some THEN Return(None)
                      ELSE LET check == _validate_format_consistency(
                                            string_values, date_values,
                                            detected_format.val, date_column_)
                           IN  IF check.kind = "raise" THEN check
                               ELSE Return(detected_format)

\* the date values of the model's tables
SampleValues ==
    {"2024-01-15", "2024-02-30", "02/03/2024", "01/15/2024", "15/01/2024",
     " 02/20/2024 ", "Jan 15, 2024", "not-a-date"}

SampleCells == {NullCell} \cup {StrCell(v) : v \in SampleValues}

\* the moments the generated columns are written from
SampleDates ==
    {[Y |-> 2024, m |-> 1, d |-> 15, H |-> 14, M |-> 30, S |-> 0],
     [Y |-> 2024, m |-> 2, d |-> 3, H |-> 9, M |-> 5, S |-> 7],
     [Y |-> 2024, m |-> 5, d |-> 5, H |-> 0, M |-> 0, S |-> 0],
     [Y |-> 1999, m |-> 12, d |-> 31, H |-> 23, M |-> 59, S |-> 59]}

\* the arguments of one call of detect_date_format on any table
InitDetect ==
    /\ data \in {DataFrame(cells) : cells \in ListsUpTo(SampleCells, MaxRows)}
    /\ date_column \in {"Date", "Amount", "Missing"}
    /\ gen_format = None
    /\ det_pc = "call"
    /\ det_result = None
    /\ SelectIdle /\ ResolveIdle /\ ValidateIdle /\ CommandIdle

\* the arguments of one call of detect_date_format on a table whose Date
\* column is written, value by value, in the format of one catalog entry
InitRoundTrip ==
    /\ gen_format \in {Some(k) : k \in 1..Len(format_patterns)}
    /\ data \in {DataFrame([i \in 1..Len(dates) |->
                               StrCell(Strftime(format_patterns[gen_format.val].format,
                                                dates[i]))]) :
                    dates \in ListsUpTo(SampleDates, MaxGenRows) \ {<<>>}}
    /\ date_column = "Date"
    /\ det_pc = "call"
    /\ det_result = None
    /\ SelectIdle /\ ResolveIdle /\ ValidateIdle /\ CommandIdle

\* the cells of a long column: dates written in two formats, and nulls
LongCells == {NullCell, StrCell("2024-01-15"), StrCell("15/01/2024")}

\* the arguments of one call of detect_date_format on a table of up to
\* MaxLongRows rows
InitLongColumn ==
    /\ data \in {DataFrame(cells) : cells \in ListsUpTo(LongCells, MaxLongRows)}
    /\ date_column = "Date"
    /\ gen_format = None
    /\ det_pc = "call"
    /\ det_result = None
    /\ SelectIdle /\ ResolveIdle /\ ValidateIdle /\ CommandIdle

detect_date_format ==
    /\ det_pc = "call"
    /\ det_result' = DetectOutcome(data, date_column)
    /\ det_pc' = "done"
    /\ UNCHANGED <<data, date_column, gen_format>>
    /\ UNCHANGED <<sel_vars, res_vars, val_vars, cmd_vars>>

NextDetect == detect_date_format

SpecDetect == InitDetect /\ [][NextDetect]_vars

SpecRoundTrip == InitRoundTrip /\ [][NextDetect]_vars

SpecLongColumn == InitLongColumn /\ [][NextDetect]_vars

(***************************************************************************)
(* Properties of detect_date_format.                                       *)
(***************************************************************************)
DetDone == det_pc = "done"

ColumnCells == data.series[date_column]
NonNullRows == {i \in 1..Len(ColumnCells) : ColumnCells[i].t # "null"}

\* the call gets as far as detecting a format
HasColumnData == date_column \in ToSet(data.columns) /\ NonNullRows # {}

\* the trimmed text of row i, and of the first non-null row
TextAt(i) == Strip(AsStr(ColumnCells[i]))
FirstText == TextAt(CHOOSE i \in NonNullRows : \A j \in NonNullRows : i <= j)

\* catalog entry k matches v structurally and parses it strictly
EntryAccepts(k, v) ==
    /\ ReMatch(format_patterns[k].pattern, v)
    /\ Strptime(format_patterns[k].format, v)

\* k is the first catalog entry that accepts v
FirstAccepting(k, v) ==
    /\ k \in 1..Len(format_patterns)
    /\ EntryAccepts(k, v)
    /\ \A j \in 1..(k - 1) : ~EntryAccepts(j, v)

IsInconsistentError(r) ==
    /\ r.kind = "raise"
    /\ r.exc = "DateFormatDetectionError"
    /\ r.msg = "Inconsistent date formats detected"

\* the format the call detected: the one it returns or cites in the
\* inconsistent-format error
DetectedFormat ==
    IF det_result.kind = "return" THEN det_result.value
    ELSE IF IsInconsistentError(det_result)
         THEN Some(det_result.detail.detected_format)
         ELSE None

SlashDate == DayFirstRe("/", 4)

\* C7: the detected format is decided by the first non-null value alone,
\* trimmed: it is the format of the first catalog entry whose regular
\* expression matches that value and whose strict parse succeeds (entries
\* that match but do not parse are skipped), and no format if there is none.
\* A slash date that parses only month-first is %m/%d/%Y, one that parses
\* day-first is %d/%m/%Y.
C7_FirstValueDecides ==
    (DetDone /\ HasColumnData) =>
        /\ \A k \in 1..Len(format_patterns) :
              FirstAccepting(k, FirstText) =>
                  DetectedFormat = Some(format_patterns[k].format)
        /\ (\A k \in 1..Len(format_patterns) : ~EntryAccepts(k, FirstText)) =>
              det_result = Return(None)
        /\ FirstText \in {"01/15/2024", "02/20/2024"} =>
              DetectedFormat = Some("%m/%d/%Y")
        /\ FirstText = "15/01/2024" => DetectedFormat = Some("%d/%m/%Y")

\* the first non-null value is not in the first row, needs trimming, and is
\* matched by the day-first entry's regular expression but parsed only by
\* the later month-first entry
C7_Witness ==
    /\ DetDone /\ HasColumnData
    /\ ColumnCells[1].t = "null"
    /\ FirstText = "02/20/2024"
    /\ ReMatch(SlashDate, FirstText) /\ ~Strptime("%d/%m/%Y", FirstText)
    /\ det_result = Return(Some("%m/%d/%Y"))

\* a first value of slash shape that parses both day-first and month-first
AmbiguousFirst ==
    /\ ReMatch(SlashDate, FirstText)
    /\ Strptime("%d/%m/%Y", FirstText)
    /\ Strptime("%m/%d/%Y", FirstText)

\* C8 as stated: an ambiguous DD/DD/YYYY first value is detected as
\* %m/%d/%Y (US before European).
C8_AsStated ==
    (DetDone /\ HasColumnData /\ AmbiguousFirst) =>
        DetectedFormat = Some("%m/%d/%Y")

\* C8 amended: the ambiguity is resolved by catalog order with the
\* worldwide day-first entry before the US one: the detected format is
\* %d/%m/%Y.
C8_AmbiguousIsDayFirst ==
    (DetDone /\ HasColumnData /\ AmbiguousFirst) =>
        DetectedFormat = Some("%d/%m/%Y")

\* "02/03/2024" alone is returned as %d/%m/%Y
C8_Witness ==
    /\ DetDone /\ HasColumnData
    /\ FirstText = "02/03/2024" /\ AmbiguousFirst
    /\ det_result = Return(Some("%d/%m/%Y"))

\* the catalog entry the column was generated from
GenEntry == format_patterns[gen_format.val]

\* every value of the generated column matches the entry's regular
\* expression and parses strictly under the entry's format
GeneratedValuesAccepted ==
    \A i \in 1..Len(ColumnCells) :
        /\ ReMatch(GenEntry.pattern, AsStr(ColumnCells[i]))
        /\ Strptime(GenEntry.format, AsStr(ColumnCells[i]))

\* C9 as stated: every value generated in a catalog entry's format matches
\* the entry's regex and parses under its format, and detect_date_format on
\* a column generated in that format returns that format.
C9_AsStated ==
    DetDone =>
        /\ GeneratedValuesAccepted
        /\ det_result = Return(Some(GenEntry.format))

\* C9 amended: every generated value matches and parses under its own
\* entry; detect_date_format returns that entry's format provided no
\* earlier catalog entry both matches and parses the first value, and
\* otherwise detects (returns or cites) the format of an earlier entry.
C9_RoundTrip ==
    DetDone =>
        /\ GeneratedValuesAccepted
        /\ FirstAccepting(gen_format.val, FirstText) =>
              det_result = Return(Some(GenEntry.format))
        /\ ~FirstAccepting(gen_format.val, FirstText) =>
              \E j \in 1..(gen_format.val - 1) :
                  DetectedFormat = Some(format_patterns[j].format)

\* a two-row month-first column whose first value no day-first entry parses
C9_Witness ==
    /\ DetDone
    /\ GenEntry.format = "%m/%d/%Y"
    /\ Len(ColumnCells) = 2
    /\ FirstAccepting(gen_format.val, FirstText)
    /\ det_result = Return(Some("%m/%d/%Y"))

\* the value of row i fails the test of catalog entry k
FailsEntry(k, i) == ~EntryAccepts(k, TextAt(i))

\* C10: detect_date_format returns a format F only if every non-null
\* value, trimmed, matches F's regular expression and parses under F; if
\* the first value yields F and another non-null value fails either test,
\* the call raises the inconsistent-format error, which cites F and shows
\* mismatching values of the column.
C10_ConsistencyEnforced ==
    (DetDone /\ HasColumnData) =>
        \A k \in 1..Len(format_patterns) :
            /\ det_result = Return(Some(format_patterns[k].format)) =>
                  \A i \in NonNullRows : ~FailsEntry(k, i)
            /\ (FirstAccepting(k, FirstText) /\ \E i \in NonNullRows : FailsEntry(k, i)) =>
                  /\ IsInconsistentError(det_result)
                  /\ det_result.detail.detected_format = format_patterns[k].format
                  /\ det_result.detail.mismatch_details # <<>>
                  /\ \A n \in 1..Len(det_result.detail.mismatch_details) :
                        \E i \in NonNullRows :
                            /\ FailsEntry(k, i)
                            /\ det_result.detail.mismatch_details[n].value = TextAt(i)

\* the only mismatching value matches the regular expression of the
\* detected format and fails its parse
C10_Witness ==
    /\ DetDone /\ HasColumnData
    /\ FirstText = "2024-01-15"
    /\ \E i \in NonNullRows : TextAt(i) = "2024-02-30"
    /\ \A i \in NonNullRows : ReMatch(YearFirstRe("-"), TextAt(i))
    /\ IsInconsistentError(det_result)
    /\ det_result.detail.detected_format = "%Y-%m-%d"

IsMissingColumnError(r) ==
    /\ r.kind = "raise"
    /\ r.exc = "DateFormatDetectionError"
    /\ r.msg = "Date column not found"

IsNoValidDataError(r) ==
    /\ r.kind = "raise"
    /\ r.exc = "DateFormatDetectionError"
    /\ r.msg = "Date column contains no valid data for format detection"

\* C11: when no catalog entry both matches and parses the first non-null
\* value, detect_date_format returns None without raising, whatever the
\* other values of the column are.
C11_UndetectedIsNone ==
    (/\ DetDone /\ HasColumnData
     /\ \A k \in 1..Len(format_patterns) : ~EntryAccepts(k, FirstText)) =>
        det_result = Return(None)

\* an undetectable first value followed by a value the catalog accepts: no
\* format could be consistent with both, yet the call returns None
C11_Witness ==
    /\ DetDone /\ HasColumnData
    /\ FirstText = "not-a-date"
    /\ \E i \in NonNullRows : \E k \in 1..Len(format_patterns) :
          EntryAccepts(k, TextAt(i))
    /\ det_result = Return(None)

\* C12: a column name that is not among the table's columns fails with
\* the missing-column error, which lists the table's columns; otherwise a
\* column without a non-null value fails with the no-valid-data error; in
\* neither case does the call return.
C12_PreconditionsInOrder ==
    DetDone =>
        /\ date_column \notin ToSet(data.columns) =>
              /\ IsMissingColumnError(det_result)
              /\ det_result.detail.date_column = date_column
              /\ det_result.detail.available_columns = data.columns
        /\ (date_column \in ToSet(data.columns) /\ NonNullRows = {}) =>
              IsNoValidDataError(det_result)

\* a column that exists and has rows, all of them null
C12_Witness ==
    /\ DetDone
    /\ date_column \in ToSet(data.columns)
    /\ Len(ColumnCells) >= 2 /\ NonNullRows = {}
    /\ IsNoValidDataError(det_result)

(***************************************************************************)
(* SheetConfig construction (schemas/split.py).                            *)
(***************************************************************************)
\* bool(x) of an Optional[str]: None and the empty string are both falsy
StrTruthy(opt) == opt.some /\ opt.val # ""

\* "%" in v
HasPercent(v) == \E i \in 1..Len(v) : CharAt(v, i) = "%"

\* a validator that rejects a blank name but stores the value as given
validate_date_column_Untrimmed(v) ==
    IF v.some /\ Strip(v.val) = ""
    THEN Raise("ValueError", "Date column name cannot be empty or whitespace only", None)
    ELSE Return(v)

\* SheetConfig.validate_date_column
validate_date_column(v) ==
    IF v.some /\ Strip(v.val) = ""
    THEN Raise("ValueError", "Date column name cannot be empty or whitespace only", None)
    ELSE Return(IF StrTruthy(v) THEN Some(Strip(v.val)) ELSE v)

\* SheetConfig.validate_date_format
validate_date_format(v) ==
    IF v.some /\ Strip(v.val) = ""
    THEN Raise("ValueError", "Date format cannot be empty or whitespace only", None)
    ELSE IF v.some /\ ~HasPercent(v.val)
    THEN Raise("ValueError", "Date format must contain datetime format specifiers", None)
    ELSE Return(IF StrTruthy(v) THEN Some(Strip(v.val)) ELSE v)

\* SheetConfig(date_column=..., date_format=..., include=...): the model
\* validates its fields and raises ValidationError if a validator raises
SheetConfig(date_column_, date_format_, include_) ==
    LET c == validate_date_column(date_column_)
        f == validate_date_format(date_format_)
    IN  IF c.kind = "raise" \/ f.kind = "raise"
        THEN Raise("ValidationError", "Invalid SheetConfig",
                   [date_column |-> c, date_format |-> f])
        ELSE Return([date_column |-> c.value, date_format |-> f.value,
                     include |-> include_])

(***************************************************************************)
(* SheetConfigProcessor.resolve_sheet_configs (utils/data_processor.py).   *)
(***************************************************************************)
\* config_dict is a record of its two keys: a key that is not set reads as
\* None (dict.get)
\* global settings that name the column Date when none is given
GlobalSettings_DefaultColumn(gdc, gdf) ==
    [date_column |-> IF StrTruthy(gdc) THEN gdc ELSE Some("Date"),
     date_format |-> IF StrTruthy(gdf) THEN gdf ELSE None]

\* lines 369-374: start with the global settings
GlobalSettings(gdc, gdf) ==
    [date_column |-> IF StrTruthy(gdc) THEN gdc ELSE None,
     date_format |-> IF StrTruthy(gdf) THEN gdf ELSE None]

\* sheet-specific settings that fill in only what the globals left unset
SheetSpecific_GlobalWins(config_dict, sheet_name, config) ==
    IF config.some /\ sheet_name \in DOMAIN config.val
    THEN LET sheet_specific == config.val[sheet_name]
         IN  [date_column |-> IF config_dict.date_column.some
                              THEN config_dict.date_column
                              ELSE sheet_specific.date_column,
              date_format |-> IF config_dict.date_format.some
                              THEN config_dict.date_format
                              ELSE sheet_specific.date_format]
    ELSE config_dict

\* lines 376-382: override with the sheet-specific settings
SheetSpecific(config_dict, sheet_name, config) ==
    IF config.some /\ sheet_name \in DOMAIN config.val
    THEN LET sheet_specific == config.val[sheet_name]
         IN  [date_column |-> IF StrTruthy(sheet_specific.date_column)
                              THEN sheet_specific.date_column
                              ELSE config_dict.date_column,
              date_format |-> IF StrTruthy(sheet_specific.date_format)
                              THEN sheet_specific.date_format
                              ELSE config_dict.date_format]
    ELSE config_dict

\* a check that is content with a date format alone
HasDateColumn_OrFormat(config_dict) ==
    StrTruthy(config_dict.date_column) \/ StrTruthy(config_dict.date_format)

\* line 385: config_dict.get("date_column") is truthy
HasDateColumn(config_dict) == StrTruthy(config_dict.date_column)

\* lines 386-389
NoDateColumnError(sheet_name) ==
    Raise("SheetConfigError", "No date column specified for sheet",
          [sheet_name |-> sheet_name])

\* a detection that runs whenever the sheet's data is at hand
NeedsDetection_Always(config_dict, sheet_name, data_map) ==
    data_map.some /\ sheet_name \in DOMAIN data_map.val

\* lines 392-396: no format so far, and the data of the sheet is at hand
NeedsDetection(config_dict, sheet_name, data_map) ==
    /\ ~StrTruthy(config_dict.date_format)
    /\ data_map.some
    /\ sheet_name \in DOMAIN data_map.val

\* a detection whose errors are logged and dropped
ApplyDetection_Swallowed(config_dict, detected) ==
    IF detected.kind = "raise" THEN Return(config_dict)
    ELSE IF detected.value.some
         THEN Return([config_dict EXCEPT !.date_format = detected.value])
         ELSE Return(config_dict)

\* lines 397-405: what the detector's outcome does to config_dict
ApplyDetection(config_dict, detected) ==
    IF detected.kind = "raise"
    THEN Raise("SheetConfigError", detected.msg, detected.detail)
    ELSE IF detected.value.some
         THEN Return([config_dict EXCEPT !.date_format = detected.value])
         ELSE Return(config_dict)

\* a DataFrame whose header cell of the date column has blanks around it
SpacedFrame(cells) ==
    [columns |-> <<" Date ", "Amount">>,
     series |-> [c \in {" Date ", "Amount"} |->
                    IF c = " Date " THEN cells
                    ELSE [i \in 1..Len(cells) |-> IntCell(100 * i)]]]

\* the sheets, tables and settings of the model
ResolveSheetNames == {"A", "a"}

ResolveTables ==
    {DataFrame(<<StrCell("2024-01-15")>>),
     DataFrame(<<StrCell("02/03/2024"), StrCell("not-a-date")>>),
     DataFrame(<<NullCell>>),
     SpacedFrame(<<StrCell("2024-01-15")>>)}

GlobalColumns == {None, Some(""), Some("Date"), Some(" Date "), Some("  ")}

GlobalFormats == {None, Some("%d/%m/%Y"), Some("dmy")}

\* the SheetConfig entries of a configuration file
ConfigEntries ==
    {SheetConfig(c, f, TRUE).value :
        c \in {None, Some("Amount")}, f \in {None, Some("%m/%d/%Y")}}
    \cup {SheetConfig(Some("Amount"), None, FALSE).value}

ResolveSchemas ==
    {v \in UNION {[D -> ConfigEntries] : D \in SUBSET ResolveSheetNames} :
        validate_sheet_configs(v)}

\* lines 391-405: config_dict after the detection, when one is needed
DetectFormat(config_dict, sheet_name, data_map) ==
    IF NeedsDetection(config_dict, sheet_name, data_map)
    THEN ApplyDetection(config_dict,
                        DetectOutcome(data_map.val[sheet_name],
                                      config_dict.date_column.val))
    ELSE Return(config_dict)

\* lines 407-408: SheetConfig(**config_dict), unless the detection raised
CreateConfig(applied) ==
    IF applied.kind = "raise" THEN applied
    ELSE SheetConfig(applied.value.date_column, applied.value.date_format, TRUE)

\* lines 384-408: the rest of the pass once config_dict holds both layers
ResolveFrom(config_dict, sheet_name, data_map) ==
    IF ~HasDateColumn(config_dict)
    THEN [outcome |-> NoDateColumnError(sheet_name), calls |-> <<>>]
    ELSE [outcome |-> CreateConfig(DetectFormat(config_dict, sheet_name, data_map)),
          calls |-> IF NeedsDetection(config_dict, sheet_name, data_map)
                    THEN <<[sheet_name |-> sheet_name,
                            date_column |-> config_dict.date_column.val]>>
                    ELSE <<>>]

\* a pass that carries the include flag of the sheet's entry over
ResolveSheet_EntryInclude(sheet_name, data_map, gdc, gdf, config) ==
    LET r == ResolveFrom(SheetSpecific(GlobalSettings(gdc, gdf), sheet_name, config),
                         sheet_name, data_map)
    IN  IF r.outcome.kind = "return" /\ config.some /\ sheet_name \in DOMAIN config.val
        THEN [r EXCEPT !.outcome.value.include = config.val[sheet_name].include]
        ELSE r

\* lines 367-408: one pass of the loop, for one sheet: the SheetConfig it
\* builds or the error it raises, and the calls it makes to the detector
ResolveSheet(sheet_name, data_map, gdc, gdf, config) ==
    ResolveFrom(SheetSpecific(GlobalSettings(gdc, gdf), sheet_name, config),
                sheet_name, data_map)

\* a map whose entries all refer to the one SheetConfig built last
PutConfig_Shared(resolved, sheet_name, config) ==
    [n \in DOMAIN resolved \cup {sheet_name} |-> config]

\* resolved_configs[sheet_name] = config
PutConfig(resolved, sheet_name, config) ==
    [n \in DOMAIN resolved \cup {sheet_name} |->
        IF n = sheet_name THEN config ELSE resolved[n]]

\* a loop that leaves out a sheet whose resolution failed and goes on
AfterSheet_SkipFailed(resolved, sheet_name, outcome) ==
    IF outcome.kind = "raise"
    THEN [pc |-> "loop", resolved |-> resolved, result |-> None]
    ELSE [pc |-> "loop", resolved |-> PutConfig(resolved, sheet_name, outcome.value),
          result |-> None]

\* where the loop stands after one sheet: an error ends the call
AfterSheet(resolved, sheet_name, outcome) ==
    IF outcome.kind = "raise"
    THEN [pc |-> "done", resolved |-> resolved, result |-> outcome]
    ELSE [pc |-> "loop", resolved |-> PutConfig(resolved, sheet_name, outcome.value),
          result |-> None]

\* the arguments of one call of resolve_sheet_configs
InitResolve ==
    /\ resolve_sheet_names \in ListsUpTo(ResolveSheetNames, MaxSheets)
    /\ resolve_sheet_data \in
          {None} \cup {Some(m) : m \in UNION {[D -> ResolveTables] :
                                                D \in SUBSET ResolveSheetNames}}
    /\ global_date_column \in GlobalColumns
    /\ global_date_format \in GlobalFormats
    /\ resolve_sheet_config \in {None} \cup {Some(v) : v \in ResolveSchemas}
    /\ res_i = 1
    /\ resolved_configs = <<>>
    /\ detector_calls = <<>>
    /\ res_pc = "loop"
    /\ res_result = None
    /\ SelectIdle /\ DetectIdle /\ ValidateIdle /\ CommandIdle

\* the loop goes on or ends after a pass that ended as r
LoopStep(sheet_name, r) ==
    LET a == AfterSheet(resolved_configs, sheet_name, r.outcome)
    IN  /\ res_pc' = a.pc
        /\ resolved_configs' = a.resolved
        /\ res_result' = a.result
        /\ detector_calls' = detector_calls \o r.calls

\* lines 367-414: the loop body for the sheet at res_i
resolve_sheet ==
    /\ res_pc = "loop"
    /\ res_i <= Len(resolve_sheet_names)
    /\ LoopStep(resolve_sheet_names[res_i],
                ResolveSheet(resolve_sheet_names[res_i], resolve_sheet_data,
                             global_date_column, global_date_format,
                             resolve_sheet_config))
    /\ res_i' = res_i + 1
    /\ UNCHANGED <<resolve_sheet_names, resolve_sheet_data, global_date_column,
                   global_date_format, resolve_sheet_config>>
    /\ UNCHANGED <<sel_vars, det_vars, val_vars, cmd_vars>>

\* line 416: return resolved_configs
resolve_return ==
    /\ res_pc = "loop"
    /\ res_i > Len(resolve_sheet_names)
    /\ res_result' = Return(resolved_configs)
    /\ res_pc' = "done"
    /\ UNCHANGED <<resolve_sheet_names, resolve_sheet_data, global_date_column,
                   global_date_format, resolve_sheet_config, res_i,
                   resolved_configs, detector_calls>>
    /\ UNCHANGED <<sel_vars, det_vars, val_vars, cmd_vars>>

NextResolve == resolve_sheet \/ resolve_return

SpecResolve == InitResolve /\ [][NextResolve]_vars

(***************************************************************************)
(* Properties of resolve_sheet_configs.                                    *)
(***************************************************************************)
ResDone == res_pc = "done"
ResReturned == ResDone /\ res_result.kind = "return"
ResRaised == ResDone /\ res_result.kind = "raise"

\* the number of passes the loop has made, and the sheet of pass k
Processed == res_i - 1
SheetAt(k) == resolve_sheet_names[k]

\* an argument that carries a value (None and "" carry none)
Supplied(opt) == opt.some /\ opt.val # ""

HasEntry(s) ==
    resolve_sheet_config.some /\ s \in DOMAIN resolve_sheet_config.val

\* the fields the configuration sets for sheet s
SheetColumn(s) ==
    IF HasEntry(s) THEN resolve_sheet_config.val[s].date_column ELSE None
SheetFormat(s) ==
    IF HasEntry(s) THEN resolve_sheet_config.val[s].date_format ELSE None

\* the column and the explicit format of sheet s after both layers
ChosenColumn(s) ==
    IF SheetColumn(s).some THEN SheetColumn(s)
    ELSE IF Supplied(global_date_column) THEN global_date_column ELSE None
ExplicitFormat(s) ==
    IF SheetFormat(s).some THEN SheetFormat(s)
    ELSE IF Supplied(global_date_format) THEN global_date_format ELSE None

\* the table of sheet s is at hand
DataFor(s) ==
    resolve_sheet_data.some /\ s \in DOMAIN resolve_sheet_data.val

IsNoDateColumnError(r, s) ==
    /\ r.kind = "raise"
    /\ r.exc = "SheetConfigError"
    /\ r.msg = "No date column specified for sheet"
    /\ r.detail.sheet_name = s

\* the calls made to the detector for sheet s
CallsFor(s) ==
    {j \in 1..Len(detector_calls) : detector_calls[j].sheet_name = s}

\* C13: field by field, the resolved date_column (date_format) of a sheet
\* is the value its config entry sets, and the global value when the sheet
\* has no entry or its entry leaves the field unset (a value is held as
\* SheetConfig stores it, without surrounding whitespace).
C13_FieldPrecedence ==
    ResReturned =>
        \A s \in DOMAIN res_result.value :
            LET c == res_result.value[s]
            IN  /\ IF SheetColumn(s).some
                   THEN c.date_column = SheetColumn(s)
                   ELSE /\ Supplied(global_date_column)
                        /\ c.date_column = Some(Strip(global_date_column.val))
                /\ IF SheetFormat(s).some
                   THEN c.date_format = SheetFormat(s)
                   ELSE Supplied(global_date_format) =>
                            c.date_format = Some(Strip(global_date_format.val))

\* one sheet overrides the global column and keeps the global format, the
\* other has no entry and keeps both global values
C13_Witness ==
    /\ ResReturned
    /\ global_date_column = Some("Date")
    /\ global_date_format = Some("%d/%m/%Y")
    /\ \E s, t \in DOMAIN res_result.value :
          /\ HasEntry(s) /\ SheetColumn(s) = Some("Amount") /\ ~SheetFormat(s).some
          /\ res_result.value[s].date_column = Some("Amount")
          /\ res_result.value[s].date_format = Some("%d/%m/%Y")
          /\ ~HasEntry(t)
          /\ res_result.value[t].date_column = Some("Date")

\* C14: a sheet for which neither the global arguments nor its config
\* entry supplies a date column makes the call fail; when the loop reaches
\* it, the error is the SheetConfigError that names the sheet, and the
\* detector has not been called for that sheet.
C14_MissingDateColumn ==
    ResDone =>
        /\ (\E k \in 1..Len(resolve_sheet_names) : ~ChosenColumn(SheetAt(k)).some) =>
              res_result.kind = "raise"
        /\ (Processed >= 1 /\ ~ChosenColumn(SheetAt(Processed)).some) =>
              /\ IsNoDateColumnError(res_result, SheetAt(Processed))
              /\ CallsFor(SheetAt(Processed)) = {}

\* the second sheet has data but no date column, after a first sheet that
\* was resolved with a detection
C14_Witness ==
    /\ ResRaised
    /\ Processed = 2
    /\ DataFor(SheetAt(2)) /\ ~ExplicitFormat(SheetAt(2)).some
    /\ IsNoDateColumnError(res_result, SheetAt(2))
    /\ Len(detector_calls) = 1
    /\ DOMAIN resolved_configs = {SheetAt(1)}

\* C15: whenever resolve_sheet_configs returns, the keys of the map are
\* exactly the given sheet names and every entry has a date_column.
C15_EveryEntryHasColumn ==
    ResReturned =>
        /\ DOMAIN res_result.value = ToSet(resolve_sheet_names)
        /\ \A s \in DOMAIN res_result.value :
              /\ res_result.value[s].date_column.some
              /\ res_result.value[s].date_column.val # ""

\* two sheets returned, one with the column of its entry and one with the
\* global column, with an explicit format for both
C15_Witness ==
    /\ ResReturned
    /\ Cardinality(DOMAIN res_result.value) = 2
    /\ \E s, t \in DOMAIN res_result.value :
          /\ SheetColumn(s).some /\ ~SheetColumn(t).some
          /\ ExplicitFormat(s).some /\ ExplicitFormat(t).some

\* the passes of the loop made for sheet s
PassesFor(s) == {k \in 1..Processed : SheetAt(k) = s}

\* the messages of the detector's errors
DetectorMessages ==
    {"Date column not found",
     "Date column contains no valid data for format detection",
     "Inconsistent date formats detected"}

\* C16: for each sheet that has a date column, the detector is called (once
\* per pass) if and only if the layers give no explicit format and the data
\* map is given and holds the sheet.  An explicit format is returned
\* unchanged and the sheet raises no detector error, whatever its table
\* holds; without the sheet's data the format stays unset.
C16_DetectionOnlyWhenNeeded ==
    ResDone =>
        /\ \A k \in 1..Processed :
              LET s == SheetAt(k)
              IN  ChosenColumn(s).some =>
                    Cardinality(CallsFor(s)) =
                        IF ~ExplicitFormat(s).some /\ DataFor(s)
                        THEN Cardinality(PassesFor(s)) ELSE 0
        /\ (/\ ResRaised
            /\ ExplicitFormat(SheetAt(Processed)).some) =>
              ~(res_result.exc = "SheetConfigError"
                    /\ res_result.msg \in DetectorMessages)
        /\ ResReturned =>
              \A s \in DOMAIN res_result.value :
                  /\ ExplicitFormat(s).some =>
                        res_result.value[s].date_format = ExplicitFormat(s)
                  /\ (~ExplicitFormat(s).some /\ ~DataFor(s)) =>
                        res_result.value[s].date_format = None

\* a sheet with an explicit format whose table is inconsistent is returned
\* with that format and without a detector call, next to a sheet without
\* a format and without data, whose format stays unset
C16_Witness ==
    /\ ResReturned
    /\ resolve_sheet_data.some
    /\ detector_calls = <<>>
    /\ \E s, t \in DOMAIN res_result.value :
          /\ SheetFormat(s) = Some("%m/%d/%Y")
          /\ DataFor(s)
          /\ DetectOutcome(resolve_sheet_data.val[s],
                           ChosenColumn(s).val).kind = "raise"
          /\ res_result.value[s].date_format = Some("%m/%d/%Y")
          /\ ~ExplicitFormat(t).some /\ ~DataFor(t)
          /\ res_result.value[t].date_format = None

\* what the detector answers to call j
DetectorAnswer(j) ==
    DetectOutcome(resolve_sheet_data.val[detector_calls[j].sheet_name],
                  detector_calls[j].date_column)

\* C17: a format the detector returns becomes the sheet's date_format;
\* "no format" leaves date_format unset and is no error; an error of the
\* detector ends the call with a SheetConfigError that carries the
\* detector's message, and such an error arises in no other way.
C17_DetectorOutcomes ==
    ResDone =>
        /\ \A j \in 1..Len(detector_calls) :
              LET d == DetectorAnswer(j)
              IN  /\ d.kind = "raise" =>
                        /\ j = Len(detector_calls)
                        /\ res_result = Raise("SheetConfigError", d.msg, d.detail)
                  /\ (d.kind = "return" /\ ResReturned) =>
                        res_result.value[detector_calls[j].sheet_name].date_format
                            = d.value
        /\ (/\ ResRaised
            /\ res_result.exc = "SheetConfigError"
            /\ res_result.msg \in DetectorMessages) =>
              /\ detector_calls # <<>>
              /\ DetectorAnswer(Len(detector_calls)).kind = "raise"
              /\ detector_calls[Len(detector_calls)].sheet_name = SheetAt(Processed)

\* a first sheet whose format was detected, then a sheet whose column is
\* inconsistent: the call ends with the detector's message
C17_Witness ==
    /\ ResRaised
    /\ Len(detector_calls) = 2
    /\ DetectorAnswer(1) = Return(Some("%Y-%m-%d"))
    /\ resolved_configs[SheetAt(1)].date_format = Some("%Y-%m-%d")
    /\ IsInconsistentError(DetectorAnswer(2))
    /\ res_result.exc = "SheetConfigError"
    /\ res_result.msg = "Inconsistent date formats detected"

\* the resolution of sheet s on its own fails
FailsAlone(s) ==
    ResolveSheet(s, resolve_sheet_data, global_date_column, global_date_format,
                 resolve_sheet_config).outcome.kind = "raise"

\* C18: if the resolution of any sheet of sheet_names fails, the whole call
\* fails and returns no map, also when earlier sheets were resolved; a
\* returned map leaves out no sheet.
C18_FailFast ==
    ResDone =>
        /\ (\E k \in 1..Len(resolve_sheet_names) : FailsAlone(SheetAt(k))) =>
              res_result.kind = "raise"
        /\ ResReturned =>
              \A k \in 1..Len(resolve_sheet_names) :
                  SheetAt(k) \in DOMAIN res_result.value

\* the first sheet was resolved, the second fails: no map is returned
C18_Witness ==
    /\ ResRaised
    /\ Processed = 2
    /\ ~FailsAlone(SheetAt(1)) /\ FailsAlone(SheetAt(2))
    /\ DOMAIN resolved_configs = {SheetAt(1)}

(***************************************************************************)
(* BaseCommand.validate_args (commands/base.py) and                        *)
(* SplitCommand.validate_args (commands/split.py).                         *)
(***************************************************************************)
\* ", ".join(strs)
RECURSIVE Join(_, _)
Join(strs, sep) ==
    IF Len(strs) = 0 THEN ""
    ELSE IF Len(strs) = 1 THEN strs[1]
    ELSE strs[1] \o sep \o Join(Tail(strs), sep)

\* FileProcessingCommand.validate_logging_args: no validate_args calls it
validate_logging_args(args_) ==
    IF args_.verbose /\ args_.quiet
    THEN Some("Cannot use --verbose and --quiet together")
    ELSE None

\* BaseCommand.validate_args: return None
BaseCommand_validate_args(args_) == None

\* selection flags that leave out --sheet-config
ActiveFlags_NoSheetConfig(args_) ==
    (IF Truthy(args_.include) THEN <<"--include">> ELSE <<>>)
        \o (IF Truthy(args_.exclude) THEN <<"--exclude">> ELSE <<>>)

\* lines 298-304: the sheet selection flags in use (a Path is always truthy)
ActiveFlags(args_) ==
    (IF Truthy(args_.include) THEN <<"--include">> ELSE <<>>)
        \o (IF Truthy(args_.exclude) THEN <<"--exclude">> ELSE <<>>)
        \o (IF args_.sheet_config.some THEN <<"--sheet-config">> ELSE <<>>)

\* SplitCommand.validate_args: the error message, or None
validate_args(args_) ==
    LET parent_validation == BaseCommand_validate_args(args_)
    IN  IF StrTruthy(parent_validation) THEN parent_validation
        ELSE IF ~StrTruthy(args_.date_column) /\ ~args_.sheet_config.some
        THEN Some("Either --date-column or --sheet-config must be provided")
        ELSE IF Len(ActiveFlags(args_)) > 1
        THEN Some("Cannot use multiple sheet selection flags together: "
                      \o Join(ActiveFlags(args_), ", "))
        ELSE None

\* what argparse hands over: --include and --exclude take one name or more
FlagLists ==
    {None} \cup {Some(l) : l \in ListsUpTo(SheetNames, MaxFilter) \ {<<>>}}

\* the parsed arguments of one split command
InitValidate ==
    /\ args \in [date_column : {None, Some(""), Some("Date")},
                 sheet_config : {None, Some("config.json")},
                 include : FlagLists,
                 exclude : FlagLists,
                 verbose : BOOLEAN,
                 quiet : BOOLEAN]
    /\ val_pc = "call"
    /\ val_result = None
    /\ SelectIdle /\ DetectIdle /\ ResolveIdle /\ CommandIdle

validate_args_call ==
    /\ val_pc = "call"
    /\ val_result' = validate_args(args)
    /\ val_pc' = "done"
    /\ UNCHANGED args
    /\ UNCHANGED <<sel_vars, det_vars, res_vars, cmd_vars>>

NextValidate == validate_args_call

SpecValidate == InitValidate /\ [][NextValidate]_vars

(***************************************************************************)
(* Properties of validate_args.                                            *)
(***************************************************************************)
ValDone == val_pc = "done"

\* the number of sheet selection flags supplied
FlagCount ==
    Cardinality({f \in {"include", "exclude", "sheet_config"} : args[f].some})

ColumnOrConfig == Supplied(args.date_column) \/ args.sheet_config.some

\* the message for the supplied flags, in the order --include, --exclude,
\* --sheet-config
MultipleFlagsMessage ==
    IF args.include.some /\ args.exclude.some /\ args.sheet_config.some
    THEN "Cannot use multiple sheet selection flags together: --include, --exclude, --sheet-config"
    ELSE IF args.include.some /\ args.exclude.some
    THEN "Cannot use multiple sheet selection flags together: --include, --exclude"
    ELSE IF args.include.some /\ args.sheet_config.some
    THEN "Cannot use multiple sheet selection flags together: --include, --sheet-config"
    ELSE "Cannot use multiple sheet selection flags together: --exclude, --sheet-config"

\* C19: validate_args returns None iff a date column or a sheet config is
\* supplied and at most one of include, exclude and sheet config is;
\* otherwise it returns the first failing check: the missing column/config
\* message, then the multiple-flags message that lists the supplied flags
\* in the order --include, --exclude, --sheet-config.
C19_ValidateArgs ==
    ValDone =>
        /\ (val_result = None) <=> (ColumnOrConfig /\ FlagCount <= 1)
        /\ ~ColumnOrConfig =>
              val_result = Some("Either --date-column or --sheet-config must be provided")
        /\ (ColumnOrConfig /\ FlagCount > 1) =>
              val_result = Some(MultipleFlagsMessage)

\* all three flags and no date column: the message lists the three flags
C19_Witness ==
    /\ ValDone
    /\ ~args.date_column.some
    /\ FlagCount = 3
    /\ val_result = Some("Cannot use multiple sheet selection flags together: --include, --exclude, --sheet-config")

\* C20: with both verbose and quiet set, validate_args returns 'Cannot use
\* --verbose and --quiet together' from the base-class validation, before
\* any check of the command itself; with at most one of them set the
\* base-class validation reports nothing.
C20_VerboseQuietFirst ==
    ValDone =>
        IF args.verbose /\ args.quiet
        THEN val_result = Some("Cannot use --verbose and --quiet together")
        ELSE val_result # Some("Cannot use --verbose and --quiet together")

(***************************************************************************)
(* BaseCommand._execute_with_validation                                    *)
(* (src/src/excelsior/commands/base.py).                                   *)
(***************************************************************************)
\* one call made by _execute_with_validation: the callee and its argument,
\* or for validate_args what it returned
Call(callee, arg) == [callee |-> callee, arg |-> arg]

\* the ways the execute of a command ends: an exit code, Ctrl-C while it
\* runs, or an error
ExecuteBehaviours ==
    {Return(0), Return(1), Return(2),
     Raise("KeyboardInterrupt", "", None),
     Raise("RuntimeError", "boom", None)}

\* the classes that derive from BaseException but not from Exception
IsException(exc) == exc \notin {"KeyboardInterrupt", "SystemExit", "GeneratorExit"}

\* lines 111-115: validate_args is called; an error is logged and ends the
\* call with 1
AfterValidation(validation_error) ==
    IF StrTruthy(validation_error)
    THEN [calls |-> <<Call("validate_args", validation_error),
                      Call("logger.error", validation_error)>>,
          pc |-> "done",
          result |-> Return(1)]
    ELSE [calls |-> <<Call("validate_args", validation_error)>>,
          pc |-> "execute",
          result |-> None]

\* execute under a handler for KeyboardInterrupt only
TryExecute_NoCatchAll(behaviour, args_) ==
    IF behaviour.kind = "return"
    THEN [calls |-> <<Call("execute", None)>>,
          result |-> Return(behaviour.value)]
    ELSE IF behaviour.exc = "KeyboardInterrupt"
    THEN [calls |-> <<Call("execute", None),
                      Call("logger.info", Some("Command cancelled by user"))>>,
          result |-> Return(130)]
    ELSE [calls |-> <<Call("execute", None)>>, result |-> behaviour]

\* lines 117-126: execute is called under the handlers for
\* KeyboardInterrupt and Exception
TryExecute(behaviour, args_) ==
    IF behaviour.kind = "return"
    THEN [calls |-> <<Call("execute", None)>>,
          result |-> Return(behaviour.value)]
    ELSE IF behaviour.exc = "KeyboardInterrupt"
    THEN [calls |-> <<Call("execute", None),
                      Call("logger.info", Some("Command cancelled by user"))>>,
          result |-> Return(130)]
    ELSE IF IsException(behaviour.exc)
    THEN [calls |-> <<Call("execute", None),
                      Call("logger.error",
                           Some("An unexpected error occurred: " \o behaviour.msg))>>
                    \o (IF args_.verbose
                        THEN <<Call("logger.exception", Some("Full traceback:"))>>
                        ELSE <<>>),
          result |-> Return(1)]
    ELSE [calls |-> <<Call("execute", None)>>, result |-> behaviour]

\* a split command about to run: its parsed arguments and what its execute
\* will do
InitRun ==
    /\ args \in [date_column : {None, Some(""), Some("Date")},
                 sheet_config : {None, Some("config.json")},
                 include : FlagLists,
                 exclude : FlagLists,
                 verbose : BOOLEAN,
                 quiet : BOOLEAN]
    /\ val_pc = "idle"
    /\ val_result = None
    /\ execute_behaviour \in ExecuteBehaviours
    /\ run_pc = "validate"
    /\ run_calls = <<>>
    /\ run_result = None
    /\ SelectIdle /\ DetectIdle /\ ResolveIdle /\ SchemaIdle /\ ExecIdle

run_validate ==
    /\ run_pc = "validate"
    /\ run_calls' = run_calls \o AfterValidation(validate_args(args)).calls
    /\ run_pc' = AfterValidation(validate_args(args)).pc
    /\ run_result' = AfterValidation(validate_args(args)).result
    /\ UNCHANGED <<execute_behaviour, val_vars>>
    /\ UNCHANGED <<sel_vars, det_vars, res_vars, schema_vars, exec_vars>>

run_execute ==
    /\ run_pc = "execute"
    /\ run_calls' = run_calls \o TryExecute(execute_behaviour, args).calls
    /\ run_pc' = "done"
    /\ run_result' = TryExecute(execute_behaviour, args).result
    /\ UNCHANGED <<execute_behaviour, val_vars>>
    /\ UNCHANGED <<sel_vars, det_vars, res_vars, schema_vars, exec_vars>>

NextRun == run_validate \/ run_execute

SpecRun == InitRun /\ [][NextRun]_vars

(***************************************************************************)
(* Properties of _execute_with_validation.                                 *)
(***************************************************************************)
RunDone == run_pc = "done"

\* the positions of the calls made to one callee
CallsTo(callee) == {j \in 1..Len(run_calls) : run_calls[j].callee = callee}

\* what validate_args returned, once it has been called
Reported == run_calls[1].arg

DocumentNames == {"A", " a", "", "  "}

\* the entries of a document, a key that is left out read as its default:
\* columns and formats with surrounding blanks, blank ones, a format
\* without a directive
DocumentEntries ==
    [date_column : {None, Some(" Date "), Some("  ")},
     date_format : {None, Some(" %d/%m/%Y "), Some("dmy"), Some("")},
     include : BOOLEAN]

\* the documents of at most MaxEntries sheets
Documents ==
    UNION {[D -> DocumentEntries] :
               D \in {D \in SUBSET DocumentNames : Cardinality(D) <= MaxEntries}}

\* validate_sheet_configs without the check of the sheet names
validate_root_NoNames(v) ==
    IF DOMAIN v = {}
    THEN Raise("ValueError", "Sheet configuration cannot be empty", None)
    ELSE IF {sheet_name \in DOMAIN v : v[sheet_name].include} = {}
    THEN Raise("ValueError", "At least one sheet must be included", None)
    ELSE Return(v)

\* SplitSheetConfigSchema.validate_sheet_configs, lines 57-80, with the
\* error it raises
validate_root(v) ==
    IF DOMAIN v = {}
    THEN Raise("ValueError", "Sheet configuration cannot be empty", None)
    ELSE IF {sheet_name \in DOMAIN v : v[sheet_name].include} = {}
    THEN Raise("ValueError", "At least one sheet must be included", None)
    ELSE IF \E sheet_name \in DOMAIN v : Strip(sheet_name) = ""
    THEN Raise("ValueError", "Sheet names cannot be empty or whitespace only", None)
    ELSE Return(v)

\* the entries of a document, each built as a SheetConfig
ParseEntries(document_) ==
    [sheet_name \in DOMAIN document_ |->
        SheetConfig(document_[sheet_name].date_column,
                    document_[sheet_name].date_format,
                    document_[sheet_name].include)]

\* SplitSheetConfigSchema(config_data): the entries are validated first,
\* then the mapping; an error of either is a ValidationError
SplitSheetConfigSchema(document_) ==
    IF \E sheet_name \in DOMAIN document_ :
           ParseEntries(document_)[sheet_name].kind = "raise"
    THEN Raise("ValidationError", "Invalid SheetConfig",
               Some({sheet_name \in DOMAIN document_ :
                        ParseEntries(document_)[sheet_name].kind = "raise"}))
    ELSE IF validate_root([sheet_name \in DOMAIN document_ |->
                              ParseEntries(document_)[sheet_name].value]).kind = "raise"
    THEN Raise("ValidationError",
               validate_root([sheet_name \in DOMAIN document_ |->
                                 ParseEntries(document_)[sheet_name].value]).msg,
               None)
    ELSE Return([sheet_name \in DOMAIN document_ |->
                    ParseEntries(document_)[sheet_name].value])

InitSchema ==
    /\ document \in {Some(d) : d \in Documents}
    /\ schema_pc = "call"
    /\ schema_result = None
    /\ SelectIdle /\ DetectIdle /\ ResolveIdle /\ ValidateIdle /\ RunIdle /\ ExecIdle

construct_schema ==
    /\ schema_pc = "call"
    /\ schema_result' = SplitSheetConfigSchema(document.val)
    /\ schema_pc' = "done"
    /\ UNCHANGED document
    /\ UNCHANGED <<sel_vars, det_vars, res_vars, val_vars, run_vars, exec_vars>>

NextSchema == construct_schema

SpecSchema == InitSchema /\ [][NextSchema]_vars

(***************************************************************************)
(* Properties of the schema construction.                                  *)
(***************************************************************************)
SchemaDone == schema_pc = "done"

SchemaBuilt == SchemaDone /\ schema_result.kind = "return"

\* a string of blanks only, the empty string included
IsBlank(str) == \A i \in 1..Len(str) : CharAt(str, i) = " "

\* C22: a SplitSheetConfigSchema that is constructed is non-empty, has at
\* least one entry with include = true and has no blank sheet name; a
\* document that is empty, includes no sheet or has a blank sheet name is
\* rejected.
C22_SchemaInvariants ==
    /\ SchemaBuilt =>
          /\ DOMAIN schema_result.value # {}
          /\ \E sheet_name \in DOMAIN schema_result.value :
                schema_result.value[sheet_name].include = TRUE
          /\ \A sheet_name \in DOMAIN schema_result.value : ~IsBlank(sheet_name)
    /\ SchemaDone =>
          ((\/ DOMAIN document.val = {}
            \/ \A sheet_name \in DOMAIN document.val :
                  ~document.val[sheet_name].include
            \/ \E sheet_name \in DOMAIN document.val : IsBlank(sheet_name))
              => schema_result.kind = "raise")

\* a document whose entries are all valid and one of which is included is
\* rejected for its blank sheet name
C22_Witness ==
    /\ SchemaDone
    /\ DOMAIN document.val = {"A", "  "}
    /\ document.val["A"].include
    /\ schema_result.kind = "raise"
    /\ schema_result.msg = "Sheet names cannot be empty or whitespace only"

(***************************************************************************)
(* Every way a SheetConfig comes to exist: as an entry of a parsed         *)
(* document, or built by resolve_sheet_configs.                            *)
(***************************************************************************)
InitConfigs == InitSchema \/ InitResolve

NextConfigs == NextSchema \/ NextResolve

SpecConfigs == InitConfigs /\ [][NextConfigs]_vars

\* the SheetConfig objects at hand: the entries of a constructed schema,
\* the entries of the schema handed to the resolver, and the
\* configurations the resolver has built
ConfigsAtHand ==
    (IF SchemaBuilt
     THEN {schema_result.value[n] : n \in DOMAIN schema_result.value}
     ELSE {})
    \cup (IF resolve_sheet_config.some
          THEN {resolve_sheet_config.val[n] : n \in DOMAIN resolve_sheet_config.val}
          ELSE {})
    \cup {resolved_configs[n] : n \in DOMAIN resolved_configs}

\* no blank at either end
IsTrimmed(str) ==
    str = "" \/ (CharAt(str, 1) # " " /\ CharAt(str, Len(str)) # " ")

\* a value a SheetConfig must not hold: a blank column, a blank format or
\* a format without a directive
BadColumn(opt) == opt.some /\ IsBlank(opt.val)
BadFormat(opt) ==
    opt.some /\ (IsBlank(opt.val) \/ \A i \in 1..Len(opt.val) : CharAt(opt.val, i) # "%")

\* C23: in every SheetConfig, parsed or built by the resolver, date_column
\* if present is trimmed and not blank, and date_format if present is
\* trimmed, not blank and contains a '%'; a blank value or a format without
\* '%' is rejected at construction, so no SheetConfig comes of it.
C23_SheetConfigInvariants ==
    /\ \A c \in ConfigsAtHand :
          /\ c.date_column.some =>
                IsTrimmed(c.date_column.val) /\ ~BadColumn(c.date_column)
          /\ c.date_format.some =>
                IsTrimmed(c.date_format.val) /\ ~BadFormat(c.date_format)
    /\ SchemaDone =>
          ((\E n \in DOMAIN document.val :
                BadColumn(document.val[n].date_column)
                    \/ BadFormat(document.val[n].date_format))
              => schema_result.kind = "raise")
    /\ \A k \in 1..Processed :
          (BadColumn(ChosenColumn(SheetAt(k))) \/ BadFormat(ExplicitFormat(SheetAt(k))))
              => /\ SheetAt(k) \notin DOMAIN resolved_configs
                 /\ ResRaised

\* the resolver is handed a column with blanks around it and a format
\* without a directive: the construction of the SheetConfig is rejected
C23_Witness ==
    /\ ResRaised
    /\ Processed = 1
    /\ ChosenColumn(SheetAt(1)) = Some(" Date ")
    /\ ExplicitFormat(SheetAt(1)) = Some("dmy")
    /\ res_result.exc = "ValidationError"

(***************************************************************************)
(* Properties of the inconsistent-format error.                            *)
(***************************************************************************)
\* the catalog entry of the format the first non-null value yields
FirstEntry == CHOOSE k \in 1..Len(format_patterns) : FirstAccepting(k, FirstText)

\* the rows, from 1, whose value fails the regular expression or the
\* strict parse of the detected format
MismatchRows ==
    LET k == FirstEntry
    IN  {i \in NonNullRows : FailsEntry(k, i)}

\* the n-th row of a set of rows, in column order
NthRow(rows, n) ==
    CHOOSE i \in rows : Cardinality({j \in rows : j <= i}) = n

Min(a, b) == IF a < b THEN a ELSE b

\* C24: the inconsistent-format error lists at most 5 rows, the earliest
\* mismatching ones in column order, each with the index of its row in the
\* table, which counts the nulls before it.
C24_EarliestFiveRows ==
    (DetDone /\ IsInconsistentError(det_result)) =>
        LET details == det_result.detail.mismatch_details
            rows == MismatchRows
        IN  /\ Len(details) = Min(5, Cardinality(rows))
            /\ \A n \in 1..Len(details) :
                  /\ details[n].row = NthRow(rows, n) - 1
                  /\ details[n].value = TextAt(NthRow(rows, n))

\* six values mismatch after a leading null: the error lists the first
\* five, at the rows 2 to 6 of the table
C24_Witness ==
    /\ DetDone /\ IsInconsistentError(det_result)
    /\ ColumnCells[1].t = "null"
    /\ Cardinality(MismatchRows) = 6
    /\ Len(det_result.detail.mismatch_details) = 5
    /\ det_result.detail.mismatch_details[1].row = 2
    /\ det_result.detail.mismatch_details[5].row = 6

\* C25: the count the inconsistent-format error reports is the number of
\* non-null values that fail the regular expression or the strict parse of
\* the detected format, and the error says '(showing first 5)' exactly
\* when more than 5 values do.
C25_CountOfMismatches ==
    (DetDone /\ IsInconsistentError(det_result)) =>
        LET rows == MismatchRows
        IN  /\ det_result.detail.total_mismatches = Cardinality(rows)
            /\ det_result.detail.showing_first_5 <=> Cardinality(rows) > 5

(***************************************************************************)
(* Further properties of process_sheet_selection.                          *)
(***************************************************************************)
\* C26: every error of the sheet selection, the unknown-name error and the
\* empty-selection error alike, carries the full list of the available
\* sheet names.
C26_ErrorsListAvailable ==
    (SelDone /\ sel_result.kind = "raise") =>
        /\ sel_result.detail # None
        /\ sel_result.detail.available = available_sheets

(***************************************************************************)
(* Further properties of resolve_sheet_configs.                            *)
(***************************************************************************)
\* C27: the column name handed to the detector for a sheet is the
\* date_column stored in the SheetConfig that results for the sheet, also
\* when the value has blanks around it.
C27_DetectorGetsStoredColumn ==
    \A j \in 1..Len(detector_calls) :
        detector_calls[j].sheet_name \in DOMAIN resolved_configs =>
            resolved_configs[detector_calls[j].sheet_name].date_column
                = Some(detector_calls[j].date_column)

\* the table of sheet s, if it is at hand
TableOf(s) == IF DataFor(s) THEN Some(resolve_sheet_data.val[s]) ELSE None

\* what the resolution yields for a sheet from the sheet's own column,
\* explicit format and table alone
OwnConfig(column, format, table) ==
    [date_column |-> Some(Strip(column.val)),
     date_format |->
        IF format.some THEN Some(Strip(format.val))
        ELSE IF table.some THEN DetectOutcome(table.val, column.val).value
        ELSE None,
     include |-> TRUE]

\* C29: when resolve_sheet_configs succeeds, the configuration of each
\* sheet is decided by the sheet's own table, its own config entry and the
\* global settings alone: the other sheets of the call, their order and
\* their number have no part in it.
C29_SheetsIndependent ==
    ResReturned =>
        /\ DOMAIN res_result.value = ToSet(resolve_sheet_names)
        /\ \A s \in DOMAIN res_result.value :
              res_result.value[s] =
                  OwnConfig(ChosenColumn(s), ExplicitFormat(s), TableOf(s))

\* two sheets that differ in column, format and table are resolved in one
\* call, each to its own configuration
C29_Witness ==
    /\ ResReturned
    /\ Len(resolve_sheet_names) = 2
    /\ \E s, t \in DOMAIN res_result.value :
          /\ ChosenColumn(s) # ChosenColumn(t)
          /\ TableOf(s) # TableOf(t)
          /\ res_result.value[s].date_column # res_result.value[t].date_column
          /\ res_result.value[s].date_format # res_result.value[t].date_format

\* C30: every SheetConfig that resolve_sheet_configs returns has include =
\* true, also for a sheet whose config entry has include = false.
C30_IncludeAlwaysTrue ==
    ResReturned =>
        \A s \in DOMAIN res_result.value : res_result.value[s].include = TRUE

\* a sheet whose entry has include = false is returned with include = true
C30_Witness ==
    /\ ResReturned
    /\ \E s \in DOMAIN res_result.value :
          /\ HasEntry(s)
          /\ resolve_sheet_config.val[s].include = FALSE
          /\ res_result.value[s].include = TRUE

(***************************************************************************)
(* SplitCommand.execute (src/src/excelsior/commands/split.py) and the      *)
(* loaders it calls (utils/data_processor.py).                             *)
(***************************************************************************)
\* SheetConfigProcessor.load_sheet_config: a file that cannot be read or
\* parsed (None) and a document the schema rejects both end in a
\* SheetConfigError
load_sheet_config(config_file_) ==
    IF ~config_file_.some
    THEN Raise("SheetConfigError", "Error loading sheet configuration", None)
    ELSE IF SplitSheetConfigSchema(config_file_.val).kind = "raise"
    THEN Raise("SheetConfigError", "Invalid sheet configuration", None)
    ELSE SplitSheetConfigSchema(config_file_.val)

\* df.empty: the table has no rows
IsEmptyFrame(table) == Len(table.series[table.columns[1]]) = 0

\* The content of a file is None if it cannot be read, else the list of
\* its tables, each under its sheet name; a CSV file holds one table,
\* under no name.
\* DataProcessor._load_csv: the DataFrame, or a DataLoadError for a file
\* that cannot be read or is empty
_load_csv(content) ==
    IF ~content.some
    THEN Raise("DataLoadError", "Error reading CSV file", None)
    ELSE IF IsEmptyFrame(content.val[1].table)
    THEN Raise("DataLoadError", "CSV file is empty", None)
    ELSE Return([is_dict |-> FALSE, sheets |-> content.val])

\* the sheets of a workbook that have rows, in the order of the workbook
RECURSIVE NonEmptySheets(_)
NonEmptySheets(sheets) ==
    IF sheets = <<>> THEN <<>>
    ELSE (IF IsEmptyFrame(sheets[1].table) THEN <<>> ELSE <<sheets[1]>>)
             \o NonEmptySheets(Tail(sheets))

\* DataProcessor._load_excel: the dict of the non-empty sheets, or a
\* DataLoadError
_load_excel(content) ==
    IF ~content.some
    THEN Raise("DataLoadError", "Error reading Excel file", None)
    ELSE IF content.val = <<>>
    THEN Raise("DataLoadError", "Excel file contains no sheets", None)
    ELSE IF NonEmptySheets(content.val) = <<>>
    THEN Raise("DataLoadError", "All sheets in Excel file are empty", None)
    ELSE Return([is_dict |-> TRUE, sheets |-> NonEmptySheets(content.val)])

\* DataProcessor.load_file
load_file(file) ==
    IF file.suffix = ".csv" THEN _load_csv(file.content)
    ELSE IF file.suffix \in {".xlsx", ".xls"} THEN _load_excel(file.content)
    ELSE Raise("DataLoadError", "Unsupported file format", None)

\* DataProcessor.validate_date_column
DataProcessor_validate_date_column(data_, column_name) ==
    IF column_name \notin ToSet(data_.columns)
    THEN Raise("DataLoadError", "Date column not found", None)
    ELSE IF \A i \in 1..Len(data_.series[column_name]) :
                data_.series[column_name][i].t = "null"
    THEN Raise("DataLoadError", "Date column contains no valid data", None)
    ELSE Return(None)

\* resolve_sheet_configs as one call: the loop of lines 367-414 from sheet i
\* on, and line 416
RECURSIVE ResolveLoop(_, _, _, _, _, _, _)
LoopAfter(a, sheet_names_, i, data_map, gdc, gdf, config) ==
    IF a.pc = "done" THEN a.result
    ELSE ResolveLoop(sheet_names_, i + 1, a.resolved, data_map, gdc, gdf, config)

ResolveLoop(sheet_names_, i, resolved, data_map, gdc, gdf, config) ==
    IF i > Len(sheet_names_) THEN Return(resolved)
    ELSE LoopAfter(AfterSheet(resolved, sheet_names_[i],
                              ResolveSheet(sheet_names_[i], data_map, gdc, gdf,
                                           config).outcome),
                   sheet_names_, i, data_map, gdc, gdf, config)

resolve_sheet_configs(sheet_names_, data_map, gdc, gdf, config) ==
    ResolveLoop(sheet_names_, 1, <<>>, data_map, gdc, gdf, config)

\* list(file_data.keys()) and file_data of a loaded workbook
SheetList(sheets) == [i \in 1..Len(sheets) |-> sheets[i].name]
SheetMap(sheets) ==
    [n \in ToSet(SheetList(sheets)) |->
        sheets[CHOOSE i \in 1..Len(sheets) : sheets[i].name = n].table]

\* lines 377-384: the name a CSV file is processed under
csv_sheet_name(config) ==
    IF config.some /\ Cardinality(DOMAIN config.val) = 1
    THEN CHOOSE n \in DOMAIN config.val : TRUE
    ELSE "CSV"

\* lines 363-386: the selected sheets
SelectSheets(loaded, args_, config) ==
    IF loaded.is_dict
    THEN SelectionOutcome(SheetList(loaded.sheets), args_.include, args_.exclude,
                          config)
    ELSE Return(<<csv_sheet_name(config)>>)

\* lines 363-387: file_data as the map from sheet name to table
FileData(loaded, config) ==
    IF loaded.is_dict THEN SheetMap(loaded.sheets)
    ELSE [n \in {csv_sheet_name(config)} |-> loaded.sheets[1].table]

\* lines 400-406: the check of one sheet's date column
ValidateSheet(sheet_name, file_data, resolved) ==
    IF ~resolved[sheet_name].date_column.some
    THEN Raise("AssertionError", "", None)
    ELSE DataProcessor_validate_date_column(file_data[sheet_name],
                                            resolved[sheet_name].date_column.val)

\* handlers that catch the two error classes of the command only
Handlers_KnownErrors(raised) ==
    IF raised.exc \in {"DataLoadError", "SheetConfigError"} THEN Return(1)
    ELSE raised

\* lines 418-423: except (DataLoadError, SheetConfigError) and except
\* Exception both return 1; an exception of neither class leaves execute
Handlers(raised) ==
    IF raised.exc \in {"DataLoadError", "SheetConfigError"} THEN Return(1)
    ELSE IF IsException(raised.exc) THEN Return(1)
    ELSE raised

\* the steps of execute at which Ctrl-C may arrive
ExecSteps ==
    {"load_sheet_config", "load_file", "select", "resolve_sheet_configs",
     "validate_date_column"}

\* how a step ends when Ctrl-C arrives while it runs
Interrupted(step, outcome) ==
    IF interrupt_at = Some(step)
    THEN Raise("KeyboardInterrupt", "", None)
    ELSE outcome

\* the arguments argparse and validate_args let through
ExecArgs ==
    {a \in [date_column : {None, Some("Date")},
            date_format : {None, Some("%d/%m/%Y"), Some("dmy")},
            sheet_config : {None, Some("config.json")},
            include : {None, Some(<<"A">>), Some(<<"AB">>)},
            exclude : {None, Some(<<"A">>)},
            verbose : {FALSE},
            quiet : {FALSE}] : validate_args(a) = None}

\* what the sheet config file holds: nothing readable, or a document
ExecEntry(c, f, b) == [date_column |-> c, date_format |-> f, include |-> b]

ExecConfigFiles ==
    {None,
     Some([n \in {} |-> ExecEntry(None, None, TRUE)]),
     Some([n \in {"A"} |-> ExecEntry(Some("Amount"), None, TRUE)]),
     Some([n \in {"A", "a"} |->
              IF n = "A" THEN ExecEntry(None, None, FALSE)
              ELSE ExecEntry(Some("Date"), Some("%Y-%m-%d"), TRUE)]),
     Some([n \in {"A"} |-> ExecEntry(Some("Date"), Some("dmy"), TRUE)])}

\* the tables of an input file: one with a date, one without rows, one
\* whose dates are all null
ExecTables ==
    {DataFrame(<<StrCell("2024-01-15")>>), DataFrame(<<>>), DataFrame(<<NullCell>>)}

\* the sheets of a workbook, in its order
ExecWorkbooks ==
    {<<>>}
    \cup {<<[name |-> n, table |-> t]>> : n \in {"A", "a"}, t \in ExecTables}
    \cup {<<[name |-> o[1], table |-> t], [name |-> o[2], table |-> u]>> :
              o \in {<<"A", "a">>, <<"a", "A">>}, t \in ExecTables, u \in ExecTables}

ExecFiles ==
    {[suffix |-> ".csv", content |-> c] :
        c \in {None} \cup {Some(<<[name |-> "", table |-> t]>>) : t \in ExecTables}}
    \cup {[suffix |-> ".xlsx", content |-> c] :
             c \in {None} \cup {Some(w) : w \in ExecWorkbooks}}
    \cup {[suffix |-> ".txt", content |-> None]}

InitExec ==
    /\ exec_args \in ExecArgs
    /\ config_file \in (IF exec_args.sheet_config.some THEN ExecConfigFiles ELSE {None})
    /\ input_file \in ExecFiles
    /\ interrupt_at \in {None} \cup {Some(step) : step \in ExecSteps}
    /\ exec_pc = "load_sheet_config"
    /\ exec_steps = <<>>
    /\ exec_sheet_config = None
    /\ exec_loaded = None
    /\ exec_file_data = None
    /\ exec_selected = <<>>
    /\ exec_resolved = None
    /\ exec_k = 1
    /\ exec_result = None
    /\ SelectIdle /\ DetectIdle /\ ResolveIdle /\ ValidateIdle /\ RunIdle /\ SchemaIdle

\* one step was taken and ended as outcome: execute goes on, or leaves
\* through its handlers
Step(step, sheet, outcome, next_pc) ==
    /\ exec_steps' = Append(exec_steps,
                            [step |-> step, sheet |-> sheet,
                             ok |-> outcome.kind = "return"])
    /\ exec_pc' = IF outcome.kind = "raise" THEN "done" ELSE next_pc
    /\ exec_result' = IF outcome.kind = "raise" THEN Handlers(outcome) ELSE exec_result

LoadConfigStep(outcome) ==
    /\ Step("load_sheet_config", None, outcome, "load_file")
    /\ exec_sheet_config' =
          IF outcome.kind = "return" THEN Some(outcome.value) ELSE exec_sheet_config

\* lines 352-356: load the sheet configuration if one is given
exec_load_sheet_config ==
    /\ exec_pc = "load_sheet_config"
    /\ IF exec_args.sheet_config.some
       THEN LoadConfigStep(Interrupted("load_sheet_config", load_sheet_config(config_file)))
       ELSE /\ exec_pc' = "load_file"
            /\ UNCHANGED <<exec_steps, exec_result, exec_sheet_config>>
    /\ UNCHANGED <<exec_inputs, exec_loaded, exec_file_data, exec_selected,
                   exec_resolved, exec_k>>
    /\ UNCHANGED <<sel_vars, det_vars, res_vars, val_vars, run_vars, schema_vars>>

LoadFileStep(outcome) ==
    /\ Step("load_file", None, outcome, "select")
    /\ exec_loaded' = IF outcome.kind = "return" THEN outcome.value ELSE exec_loaded

\* lines 358-360: load the input file
exec_load_file ==
    /\ exec_pc = "load_file"
    /\ LoadFileStep(Interrupted("load_file", load_file(input_file)))
    /\ UNCHANGED <<exec_inputs, exec_sheet_config, exec_file_data, exec_selected,
                   exec_resolved, exec_k>>
    /\ UNCHANGED <<sel_vars, det_vars, res_vars, val_vars, run_vars, schema_vars>>

SelectStep(outcome) ==
    /\ Step("select", None, outcome, "resolve_sheet_configs")
    /\ exec_selected' = IF outcome.kind = "return" THEN outcome.value ELSE exec_selected
    /\ exec_file_data' =
          IF outcome.kind = "return" THEN FileData(exec_loaded, exec_sheet_config)
          ELSE exec_file_data

\* lines 362-387: decide which sheets to process
exec_select ==
    /\ exec_pc = "select"
    /\ SelectStep(Interrupted("select",
                              SelectSheets(exec_loaded, exec_args, exec_sheet_config)))
    /\ UNCHANGED <<exec_inputs, exec_sheet_config, exec_loaded, exec_resolved, exec_k>>
    /\ UNCHANGED <<sel_vars, det_vars, res_vars, val_vars, run_vars, schema_vars>>

ResolveStep(outcome) ==
    /\ Step("resolve_sheet_configs", None, outcome, "validate_date_column")
    /\ exec_resolved' = IF outcome.kind = "return" THEN outcome.value ELSE exec_resolved

\* lines 389-396: resolve the configuration of each selected sheet
exec_resolve ==
    /\ exec_pc = "resolve_sheet_configs"
    /\ ResolveStep(Interrupted("resolve_sheet_configs",
                               resolve_sheet_configs(exec_selected, Some(exec_file_data),
                                                     exec_args.date_column,
                                                     exec_args.date_format,
                                                     exec_sheet_config)))
    /\ UNCHANGED <<exec_inputs, exec_sheet_config, exec_loaded, exec_file_data,
                   exec_selected, exec_k>>
    /\ UNCHANGED <<sel_vars, det_vars, res_vars, val_vars, run_vars, schema_vars>>

\* lines 398-406: validate the date column of the sheet at exec_k
exec_validate ==
    /\ exec_pc = "validate_date_column"
    /\ exec_k <= Len(exec_selected)
    /\ Step("validate_date_column", Some(exec_selected[exec_k]),
            Interrupted("validate_date_column",
                        ValidateSheet(exec_selected[exec_k], exec_file_data,
                                      exec_resolved)),
            "validate_date_column")
    /\ exec_k' = exec_k + 1
    /\ UNCHANGED <<exec_inputs, exec_sheet_config, exec_loaded, exec_file_data,
                   exec_selected, exec_resolved>>
    /\ UNCHANGED <<sel_vars, det_vars, res_vars, val_vars, run_vars, schema_vars>>

\* lines 408-416: return 0
exec_return ==
    /\ exec_pc = "validate_date_column"
    /\ exec_k > Len(exec_selected)
    /\ exec_result' = Return(0)
    /\ exec_pc' = "done"
    /\ UNCHANGED <<exec_inputs, exec_steps, exec_locals>>
    /\ UNCHANGED <<sel_vars, det_vars, res_vars, val_vars, run_vars, schema_vars>>

NextExec ==
    \/ exec_load_sheet_config
    \/ exec_load_file
    \/ exec_select
    \/ exec_resolve
    \/ exec_validate
    \/ exec_return

SpecExec == InitExec /\ [][NextExec]_vars

(***************************************************************************)
(* Properties of SplitCommand.execute.                                     *)
(***************************************************************************)
ExecDone == exec_pc = "done"

\* the names of the steps taken so far
StepNames == [i \in 1..Len(exec_steps) |-> exec_steps[i].step]

\* the steps of a run that goes through, in order, for the sheets selected
AllSteps ==
    (IF exec_args.sheet_config.some THEN <<"load_sheet_config">> ELSE <<>>)
        \o <<"load_file", "select", "resolve_sheet_configs">>
        \o [k \in 1..Len(exec_selected) |-> "validate_date_column"]

IsPrefix(a, b) == Len(a) <= Len(b) /\ SubSeq(b, 1, Len(a)) = a

\* the sheets whose date column was validated, in the order of the checks
ValidatedSheets ==
    LET checks == SelectSeq(exec_steps, LAMBDA e : e.step = "validate_date_column")
    IN  [k \in 1..Len(checks) |-> checks[k].sheet.val]

\* the resolved date column of sheet s is a column of its table that holds
\* a value
ColumnHolds(s) ==
    /\ exec_resolved[s].date_column.some
    /\ exec_resolved[s].date_column.val \in ToSet(exec_file_data[s].columns)
    /\ \E i \in 1..Len(exec_file_data[s].series[exec_resolved[s].date_column.val]) :
          exec_file_data[s].series[exec_resolved[s].date_column.val][i].t # "null"

\* the steps are taken in order; 0 is returned only after all of them
\* went through, for every selected sheet; a step that fails is the last
\* one
StepsInOrder ==
    /\ IsPrefix(StepNames, AllSteps)
    /\ (ExecDone /\ exec_result = Return(0)) =>
          /\ StepNames = AllSteps
          /\ \A i \in 1..Len(exec_steps) : exec_steps[i].ok
          /\ exec_selected # <<>>
          /\ ValidatedSheets = exec_selected
          /\ DOMAIN exec_resolved = ToSet(exec_selected)
          /\ \A k \in 1..Len(exec_selected) : ColumnHolds(exec_selected[k])
    /\ \A i \in 1..Len(exec_steps) :
          ~exec_steps[i].ok => (i = Len(exec_steps) /\ ExecDone)

\* C28 as stated: execute lets no exception escape and returns only 0 or
\* 1; it returns 0 only after the sheet config (if any) and the input file
\* were loaded, the sheets selected, their configurations resolved and the
\* date column of every selected sheet validated, in this order; a step
\* that fails ends the run with 1 and no later step is taken.
C28_AsStated ==
    /\ StepsInOrder
    /\ ExecDone =>
          /\ exec_result.kind = "return"
          /\ exec_result.value \in {0, 1}
          /\ (\E i \in 1..Len(exec_steps) : ~exec_steps[i].ok) =>
                exec_result = Return(1)

\* C28, amended: execute lets no Exception escape, and returns only 0 or
\* 1 when it returns; a KeyboardInterrupt that arrives during a step is not
\* caught and leaves execute.  The order of the steps is as stated, and a
\* step that fails with a DataLoadError, a SheetConfigError or any other
\* Exception ends the run with 1 and no later step is taken.
C28_NoExceptionEscapes ==
    /\ StepsInOrder
    /\ ExecDone =>
          /\ exec_result.kind = "return" => exec_result.value \in {0, 1}
          /\ exec_result.kind = "raise" =>
                /\ exec_result.exc = "KeyboardInterrupt"
                /\ exec_steps # <<>>
                /\ interrupt_at = Some(exec_steps[Len(exec_steps)].step)
          /\ (\E i \in 1..Len(exec_steps) : ~exec_steps[i].ok) =>
                \/ exec_result = Return(1)
                \/ interrupt_at = Some(exec_steps[Len(exec_steps)].step)

\* no Ctrl-C: the file is loaded and its sheets are selected, the
\* resolution fails with the ValidationError of a format without a
\* directive, execute returns 1 and validates no date column
C28_Witness ==
    /\ ExecDone
    /\ interrupt_at = None
    /\ exec_args.date_format = Some("dmy")
    /\ StepNames = <<"load_file", "select", "resolve_sheet_configs">>
    /\ ~exec_steps[3].ok
    /\ exec_result = Return(1)

====
